---- MODULE Spec2Model ----
(***************************************************************************)
(* expense-flow: the four-stage expense pipeline (classifier, searcher,    *)
(* analyst, strategist), its orchestrator, the LLM service and the API     *)
(* handlers that share it.                                                 *)
(*                                                                         *)
(* Conventions.                                                            *)
(*  - A Python str is a sequence of one-character strings; a character     *)
(*    outside ASCII is written "uXXXX" (its code point).                   *)
(*  - A Python float is an exact rational <<n, d>> in lowest terms with    *)
(*    d > 0; floating-point rounding is not modelled.                      *)
(*  - A Python dict is the sequence of its <<key, value>> items in         *)
(*    insertion order.                                                     *)
(*  - None is <<>>; an optional value that is present is <<value>>.        *)
(***************************************************************************)
EXTENDS Integers, Sequences, FiniteSets, TLC

VARIABLES
    \* ---- one run of Orchestrator.analyze_expenses ----
    pc,             \* the stage the run is at
    request,        \* the arguments of analyze_expenses
    idx,            \* position of the classifier's / searcher's loop
    expenses,       \* the list of Expense objects of the run
    frame,          \* locals of AnalystAgent.execute (kept when it raises)
    analysis,       \* the Analysis returned by the analyst, or None
    recommendation, \* the Recommendation returned by the strategist, or None
    storage,        \* what StorageService holds on disk
    error,          \* the exception the run ended with, or None
    trace,          \* the stages that completed, in order
    searcher,       \* whether the orchestrator has a searcher agent
    unreachable,    \* the stages in which the LLM backend or the storage failed
    response,       \* the status code the /analyze handler answered, or None
    \* ---- a pure function applied to one input ----
    fnIn,
    fnOut,
    \* ---- the shared LLMService under concurrent requests ----
    client,         \* LLMService._client: a client id, or None
    closed,         \* the client ids that were closed (aclose)
    created,        \* number of clients created so far
    rpc,            \* each request's position
    own,            \* the client each request created in __aenter__
    calls,          \* generate calls each request has made
    observed        \* what each generate call found in LLMService._client

runVars  == <<pc, request, idx, expenses, frame, analysis, recommendation,
              storage, error, trace, searcher, unreachable, response>>
fnVars   == <<fnIn, fnOut>>
concVars == <<client, closed, created, rpc, own, calls, observed>>
vars     == <<runVars, fnVars, concVars>>

\* None is the empty tuple and an optional value x that is present is <<x>>
None == <<>>
Some(x) == <<x>>

(***************************************************************************)
(* Exact rationals (the values of Python floats).                          *)
(***************************************************************************)
Abs(x) == IF x < 0 THEN -x ELSE x

RECURSIVE GCD(_, _)
GCD(a, b) == IF b = 0 THEN a ELSE GCD(b, a % b)

RatNorm(n, d) ==
    LET s == IF d < 0 THEN -1 ELSE 1
        g == GCD(Abs(n), Abs(d))
    IN  <<(s * n) \div g, (s * d) \div g>>

Rat(n) == <<n, 1>>
RatAdd(a, b) == RatNorm(a[1] * b[2] + b[1] * a[2], a[2] * b[2])
RatSub(a, b) == RatNorm(a[1] * b[2] - b[1] * a[2], a[2] * b[2])
RatMul(a, b) == RatNorm(a[1] * b[1], a[2] * b[2])
RatDiv(a, b) == RatNorm(a[1] * b[2], a[2] * b[1])
RatLt(a, b)  == a[1] * b[2] < b[1] * a[2]
RatLe(a, b)  == a[1] * b[2] <= b[1] * a[2]
RatIsZero(a) == a[1] = 0

RECURSIVE Pow10(_)
Pow10(k) == IF k = 0 THEN 1 ELSE 10 * Pow10(k - 1)

(***************************************************************************)
(* domain/enums.py: BudgetStatus.from_percentage                           *)
(***************************************************************************)
HealthyBelow == 80
WarningUpTo  == 100

from_percentage_le80(percentage) ==
    IF RatLt(percentage, Rat(0)) THEN "UNKNOWN"
    ELSE IF RatLe(percentage, Rat(HealthyBelow)) THEN "HEALTHY"
    ELSE IF RatLe(percentage, Rat(WarningUpTo)) THEN "WARNING"
    ELSE "OVER_BUDGET"

from_percentage(percentage) ==
    IF RatLt(percentage, Rat(0)) THEN "UNKNOWN"
    ELSE IF RatLt(percentage, Rat(HealthyBelow)) THEN "HEALTHY"
    ELSE IF RatLe(percentage, Rat(WarningUpTo)) THEN "WARNING"
    ELSE "OVER_BUDGET"

(***************************************************************************)
(* Strings.                                                                *)
(***************************************************************************)
Whitespace == {" ", "\t", "\n"}
DigitChars == <<"0", "1", "2", "3", "4", "5", "6", "7", "8", "9">>
UpperChars == <<"A", "B", "C", "D", "E", "F", "G", "H", "I", "J", "K", "L", "M",
                "N", "O", "P", "Q", "R", "S", "T", "U", "V", "W", "X", "Y", "Z">>
LowerChars == <<"a", "b", "c", "d", "e", "f", "g", "h", "i", "j", "k", "l", "m",
                "n", "o", "p", "q", "r", "s", "t", "u", "v", "w", "x", "y", "z">>

IsWs(c)    == c \in Whitespace
IsDigit(c) == \E i \in 1..Len(DigitChars) : DigitChars[i] = c
DigitVal(c) == (CHOOSE i \in 1..Len(DigitChars) : DigitChars[i] = c) - 1

LowerChar(c) ==
    IF \E i \in 1..Len(UpperChars) : UpperChars[i] = c
    THEN LowerChars[CHOOSE i \in 1..Len(UpperChars) : UpperChars[i] = c]
    ELSE c
UpperChar(c) ==
    IF \E i \in 1..Len(LowerChars) : LowerChars[i] = c
    THEN UpperChars[CHOOSE i \in 1..Len(LowerChars) : LowerChars[i] = c]
    ELSE c

\* str.lower(), str.upper()
Lower(s) == [i \in 1..Len(s) |-> LowerChar(s[i])]
Upper(s) == [i \in 1..Len(s) |-> UpperChar(s[i])]

\* index of the first character at or after j that is not whitespace / not a
\* digit (Len(s) + 1 when there is none)
RECURSIVE SkipWs(_, _)
SkipWs(s, j) == IF j <= Len(s) /\ IsWs(s[j]) THEN SkipWs(s, j + 1) ELSE j
RECURSIVE SkipDigits(_, _)
SkipDigits(s, j) == IF j <= Len(s) /\ IsDigit(s[j]) THEN SkipDigits(s, j + 1) ELSE j
RECURSIVE LastNonWs(_, _)
LastNonWs(s, j) == IF j >= 1 /\ IsWs(s[j]) THEN LastNonWs(s, j - 1) ELSE j

\* str.strip()
Strip(s) == SubSeq(s, SkipWs(s, 1), LastNonWs(s, Len(s)))

\* kw in s
Contains(s, kw) ==
    \E i \in 0..(Len(s) - Len(kw)) : SubSeq(s, i + 1, i + Len(kw)) = kw

\* s.replace(a, b) for one-character a, b
Replace(s, a, b) == [i \in 1..Len(s) |-> IF s[i] = a THEN b ELSE s[i]]

RECURSIVE DigitsValue(_)
DigitsValue(ds) ==
    IF ds = <<>> THEN 0
    ELSE 10 * DigitsValue(SubSeq(ds, 1, Len(ds) - 1)) + DigitVal(ds[Len(ds)])

\* float(s) for s of the form [sign] digits [. digits]; any other s the
\* replies of this model hold is a ValueError
FloatOk(s) ==
    LET u == IF s # <<>> /\ s[1] \in {"+", "-"} THEN Tail(s) ELSE s
        b == SkipDigits(u, 1)
        e == SkipDigits(u, b + 1)
    IN  /\ b > 1
        /\ \/ b = Len(u) + 1
           \/ b <= Len(u) /\ u[b] = "." /\ e > b + 1 /\ e = Len(u) + 1
FloatValue(s) ==
    LET u == IF s # <<>> /\ s[1] \in {"+", "-"} THEN Tail(s) ELSE s
        b == SkipDigits(u, 1)
        k == Len(u) - b
        v == IF b = Len(u) + 1 THEN Rat(DigitsValue(u))
             ELSE RatNorm(DigitsValue(SubSeq(u, 1, b - 1)) * Pow10(k)
                             + DigitsValue(SubSeq(u, b + 1, Len(u))),
                          Pow10(k))
    IN  IF s[1] = "-" THEN RatSub(Rat(0), v) ELSE v

(***************************************************************************)
(* domain/enums.py: ExpenseCategory and its keyword table.                 *)
(***************************************************************************)
CategoryOrder ==
    <<"FOOD", "TRANSPORT", "UTILITIES", "ENTERTAINMENT", "HEALTH",
      "EDUCATION", "SHOPPING", "HOUSING", "PERSONAL", "OTHER">>
Categories == {CategoryOrder[i] : i \in 1..Len(CategoryOrder)}

\* the member values as character sequences
CategoryChars ==
    [c \in Categories |->
        CASE c = "FOOD"          -> <<"F", "O", "O", "D">>
          [] c = "TRANSPORT"     -> <<"T", "R", "A", "N", "S", "P", "O", "R", "T">>
          [] c = "UTILITIES"     -> <<"U", "T", "I", "L", "I", "T", "I", "E", "S">>
          [] c = "ENTERTAINMENT" -> <<"E", "N", "T", "E", "R", "T", "A", "I", "N", "M", "E", "N", "T">>
          [] c = "HEALTH"        -> <<"H", "E", "A", "L", "T", "H">>
          [] c = "EDUCATION"     -> <<"E", "D", "U", "C", "A", "T", "I", "O", "N">>
          [] c = "SHOPPING"      -> <<"S", "H", "O", "P", "P", "I", "N", "G">>
          [] c = "HOUSING"       -> <<"H", "O", "U", "S", "I", "N", "G">>
          [] c = "PERSONAL"      -> <<"P", "E", "R", "S", "O", "N", "A", "L">>
          [] c = "OTHER"         -> <<"O", "T", "H", "E", "R">>]

\* ExpenseCategory(value): the member with that value, or "ValueError"
ExpenseCategory(value) ==
    IF \E c \in Categories : CategoryChars[c] = value
    THEN CHOOSE c \in Categories : CategoryChars[c] = value
    ELSE "ValueError"

\* keywords_map, domain/enums.py line 47
KeywordsFood ==
    << <<"m", "a", "r", "k", "e", "t">>,
         <<"y", "e", "m", "e", "k">>,
         <<"e", "k", "m", "e", "k">>,
         <<"g", "u00c4", "u00b1", "d", "a">>,
         <<"r", "e", "s", "t", "a", "u", "r", "a", "n", "t">>,
         <<"k", "a", "f", "e">>,
         <<"k", "a", "h", "v", "e">>,
         <<"s", "t", "a", "r", "b", "u", "c", "k", "s">>,
         <<"m", "i", "g", "r", "o", "s">>,
         <<"c", "a", "r", "r", "e", "f", "o", "u", "r">>,
         <<"a", "1", "0", "1">>,
         <<"p", "i", "z", "z", "a">>,
         <<"d", "o", "m", "i", "n", "o", "s">> >>

\* keywords_map, domain/enums.py line 48
KeywordsTransport ==
    << <<"b", "e", "n", "z", "i", "n">>,
         <<"y", "a", "k", "u00c4", "u00b1", "t">>,
         <<"o", "t", "o", "b", "u00c3", "u00bc", "s">>,
         <<"m", "e", "t", "r", "o">>,
         <<"t", "a", "k", "s", "i">>,
         <<"u", "b", "e", "r">>,
         <<"a", "r", "a", "u00c3", "u00a7">>,
         <<"u", "u00c3", "u00a7", "a", "k">>,
         <<"b", "i", "l", "e", "t">>,
         <<"p", "e", "g", "a", "s", "u", "s">>,
         <<"t", "h", "y">>,
         <<"t", "r", "a", "n", "s", "f", "e", "r">> >>

\* keywords_map, domain/enums.py line 49
KeywordsUtilities ==
    << <<"e", "l", "e", "k", "t", "r", "i", "k">>,
         <<"s", "u">>,
         <<"g", "a", "z">>,
         <<"i", "n", "t", "e", "r", "n", "e", "t">>,
         <<"t", "e", "l", "e", "f", "o", "n">>,
         <<"f", "a", "t", "u", "r", "a">>,
         <<"d", "o", "u00c4", "u0178", "a", "l", "g", "a", "z">> >>

\* keywords_map, domain/enums.py line 50
KeywordsEntertainment ==
    << <<"s", "i", "n", "e", "m", "a">>,
         <<"f", "i", "l", "m">>,
         <<"k", "o", "n", "s", "e", "r">>,
         <<"t", "i", "y", "a", "t", "r", "o">>,
         <<"o", "y", "u", "n">>,
         <<"n", "e", "t", "f", "l", "i", "x">>,
         <<"s", "p", "o", "t", "i", "f", "y">>,
         <<"a", "b", "o", "n", "e", "l">>,
         <<"d", "i", "s", "n", "e", "y">> >>

\* keywords_map, domain/enums.py line 51
KeywordsHealth ==
    << <<"d", "o", "k", "t", "o", "r">>,
         <<"h", "a", "s", "t", "a", "n", "e">>,
         <<"e", "c", "z", "a", "n", "e">>,
         <<"i", "l", "a", "u00c3", "u00a7">>,
         <<"s", "a", "u00c4", "u0178", "l", "u00c4", "u00b1", "k">> >>

\* keywords_map, domain/enums.py line 52
KeywordsEducation ==
    << <<"k", "i", "t", "a", "p">>,
         <<"k", "u", "r", "s">>,
         <<"e", "u00c4", "u0178", "i", "t", "i", "m">>,
         <<"o", "k", "u", "l">>,
         <<"d", "e", "r", "s">>,
         <<"u", "d", "e", "m", "y">>,
         <<"c", "o", "u", "r", "s", "e", "r", "a">> >>

\* keywords_map, domain/enums.py line 53
KeywordsShopping ==
    << <<"g", "i", "y", "i", "m">>,
         <<"k", "u00c4", "u00b1", "y", "a", "f", "e", "t">>,
         <<"a", "y", "a", "k", "k", "a", "b", "u00c4", "u00b1">>,
         <<"a", "l", "u00c4", "u00b1", "u00c5", "u0178", "v", "e", "r", "i", "u00c5", "u0178">>,
         <<"l", "a", "p", "t", "o", "p">>,
         <<"b", "i", "l", "g", "i", "s", "a", "y", "a", "r">>,
         <<"t", "e", "l", "e", "f", "o", "n">>,
         <<"m", "o", "u", "s", "e">>,
         <<"k", "l", "a", "v", "y", "e">>,
         <<"m", "o", "n", "i", "t", "u00c3", "u00b6", "r">>,
         <<"k", "a", "m", "e", "r", "a">>,
         <<"k", "u", "l", "a", "k", "l", "u00c4", "u00b1", "k">>,
         <<"m", "a", "c", "b", "o", "o", "k">>,
         <<"i", "p", "h", "o", "n", "e">>,
         <<"s", "a", "m", "s", "u", "n", "g">>,
         <<"a", "p", "p", "l", "e">>,
         <<"l", "o", "g", "i", "t", "e", "c", "h">>,
         <<"a", "s", "u", "s">>,
         <<"m", "s", "i">>,
         <<"l", "e", "n", "o", "v", "o">>,
         <<"d", "e", "l", "l">>,
         <<"h", "p">>,
         <<"r", "a", "z", "e", "r">>,
         <<"k", "e", "y", "c", "h", "r", "o", "n">>,
         <<"a", "n", "k", "e", "r">>,
         <<"t", "e", "k", "n", "o", "s", "a">>,
         <<"v", "a", "t", "a", "n">>,
         <<"m", "e", "d", "i", "a", "m", "a", "r", "k", "t">>,
         <<"h", "e", "p", "s", "i", "b", "u", "r", "a", "d", "a">>,
         <<"t", "r", "e", "n", "d", "y", "o", "l">>,
         <<"a", "m", "a", "z", "o", "n">>,
         <<"n", "1", "1">>,
         <<"g", "i", "t", "t", "i", "g", "i", "d", "i", "y", "o", "r">>,
         <<"u", "s", "b">>,
         <<"d", "i", "s", "k">>,
         <<"h", "a", "r", "d">>,
         <<"s", "s", "d">>,
         <<"r", "a", "m">>,
         <<"e", "k", "r", "a", "n">>,
         <<"t", "a", "b", "l", "e", "t">>,
         <<"i", "p", "a", "d">>,
         <<"a", "i", "r", "p", "o", "d", "s">>,
         <<"u00c3", "u00a7", "a", "n", "t", "a">>,
         <<"k", "u00c4", "u00b1", "l", "u00c4", "u00b1", "f">>,
         <<"a", "k", "s", "e", "s", "u", "a", "r">>,
         <<"h", "u", "b">>,
         <<"a", "d", "a", "p", "t", "e", "r">>,
         <<"k", "a", "b", "l", "o">>,
         <<"u00c5", "u0178", "a", "r", "j">>,
         <<"p", "o", "w", "e", "r", "b", "a", "n", "k">>,
         <<"t", "r", "a", "c", "k", "p", "a", "d">>,
         <<"w", "e", "b", "c", "a", "m">>,
         <<"m", "i", "k", "r", "o", "f", "o", "n">> >>

\* keywords_map, domain/enums.py line 54
KeywordsHousing ==
    << <<"k", "i", "r", "a">>,
         <<"r", "e", "n", "t">>,
         <<"e", "v">>,
         <<"m", "o", "b", "i", "l", "y", "a">>,
         <<"o", "t", "e", "l">>,
         <<"k", "o", "n", "a", "k", "l", "a", "m", "a">>,
         <<"h", "i", "l", "t", "o", "n">>,
         <<"h", "e", "r", "t", "z">>,
         <<"k", "i", "r", "a", "l", "a", "m", "a">> >>

\* keywords_map, domain/enums.py line 55
KeywordsPersonal ==
    << <<"k", "u", "a", "f", "u00c3", "u00b6", "r">>,
         <<"b", "e", "r", "b", "e", "r">>,
         <<"g", "u00c3", "u00bc", "z", "e", "l", "l", "i", "k">>,
         <<"s", "p", "a">>,
         <<"m", "a", "s", "a", "j">> >>

\* keywords_map, in the order the dict literal lists its keys
keywords_map ==
    << <<"FOOD", KeywordsFood>>,
       <<"TRANSPORT", KeywordsTransport>>,
       <<"UTILITIES", KeywordsUtilities>>,
       <<"ENTERTAINMENT", KeywordsEntertainment>>,
       <<"HEALTH", KeywordsHealth>>,
       <<"EDUCATION", KeywordsEducation>>,
       <<"SHOPPING", KeywordsShopping>>,
       <<"HOUSING", KeywordsHousing>>,
       <<"PERSONAL", KeywordsPersonal>> >>

\* any(kw in text_lower for kw in keywords)
AnyKeyword(text_lower, keywords) ==
    \E k \in 1..Len(keywords) : Contains(text_lower, keywords[k])

\* a matching that lets the last category with a hit win
from_keywords_last(text) ==
    LET text_lower == Lower(text)
        hits == {i \in 1..Len(keywords_map) :
                    AnyKeyword(text_lower, keywords_map[i][2])}
    IN  IF hits = {} THEN "OTHER"
        ELSE keywords_map[CHOOSE i \in hits : \A j \in hits : j <= i][1]

\* ExpenseCategory.from_keywords: the first category of keywords_map with a hit
from_keywords(text) ==
    LET text_lower == Lower(text)
        hits == {i \in 1..Len(keywords_map) :
                    AnyKeyword(text_lower, keywords_map[i][2])}
    IN  IF hits = {} THEN "OTHER"
        ELSE keywords_map[CHOOSE i \in hits : \A j \in hits : i <= j][1]

(***************************************************************************)
(* services/llm_service.py: what LLMService.generate gives its caller.     *)
(* A reply is [ok |-> FALSE] when generate raises RuntimeError (backend    *)
(* unreachable, non-success status, closed client) and otherwise carries   *)
(* the stripped response text.  For the parser the text is given by what   *)
(* json.loads makes of it:                                                 *)
(*   j = "invalid"  not JSON (JSONDecodeError)                             *)
(*   j = "object"   a JSON object; hasDesc / hasAmount say which keys it   *)
(*                  holds, desc is the description string, amt the amount  *)
(*   j = "array"    a JSON value that is not an object                     *)
(* and the amount member is  t = "number" (num), "string" (str), "null".    *)
(***************************************************************************)
GenerateFailed == [ok |-> FALSE, text |-> <<>>]
Reply(text)    == [ok |-> TRUE, text |-> text]

JsonAmount(t, num, str) == [t |-> t, num |-> num, str |-> str]
JsonReply(j, hasDesc, desc, hasAmount, amt) ==
    [ok |-> TRUE, j |-> j, hasDesc |-> hasDesc, desc |-> desc,
     hasAmount |-> hasAmount, amt |-> amt]
JsonFailed ==
    [ok |-> FALSE, j |-> "invalid", hasDesc |-> FALSE, desc |-> <<>>,
     hasAmount |-> FALSE, amt |-> JsonAmount("null", Rat(0), <<>>)]

(***************************************************************************)
(* agents/classifier.py: ClassifierAgent._parse                            *)
(***************************************************************************)
\* how a call ended, with the number of generate calls it made
Returned(value, llm) == [kind |-> "return", value |-> value, llm |-> llm]
Raised(exc, llm)     == [kind |-> "raise", exc |-> exc, llm |-> llm]
Sentinel(text)       == Returned([description |-> text, amount |-> Rat(0)], 1)

\* the same tag without re.IGNORECASE
TagAtCaseSensitive(s, t) ==
    \/ /\ t + 1 <= Len(s)
       /\ <<s[t], s[t + 1]>> \in {<<"T", "L">>, <<"t", "l">>}
       /\ SkipWs(s, t + 2) = Len(s) + 1
    \/ /\ t <= Len(s)
       /\ s[t] = "u20ba"
       /\ SkipWs(s, t + 1) = Len(s) + 1

\* the currency tag (TL|₺|tl) under re.IGNORECASE, at position t, followed by
\* \s*$
TagAt(s, t) ==
    \/ /\ t + 1 <= Len(s)
       /\ LowerChar(s[t]) = "t"
       /\ LowerChar(s[t + 1]) = "l"
       /\ SkipWs(s, t + 2) = Len(s) + 1
    \/ /\ t <= Len(s)
       /\ s[t] = "u20ba"
       /\ SkipWs(s, t + 1) = Len(s) + 1

\* \s+(\d+(?:[.,]\d+)?)\s*(TL|₺|tl)\s*$ from position i + 1: the span of
\* group 2, or <<>> when the tail does not match.  The optional fraction is
\* tried first (greedy), then the number without it.
TailMatch(s, i) ==
    LET a == SkipWs(s, i + 1)
        b == SkipDigits(s, a)
        f == IF b <= Len(s) /\ s[b] \in {".", ","} THEN SkipDigits(s, b + 1) ELSE b
    IN  IF a = i + 1 \/ b = a THEN <<>>
        ELSE IF f > b + 1 /\ TagAt(s, SkipWs(s, f)) THEN <<a, f - 1>>
        ELSE IF TagAt(s, SkipWs(s, b)) THEN <<a, b - 1>>
        ELSE <<>>

\* group 1 is (.+?): "." matches anything but a newline
Group1Ok(s, i) == \A k \in 1..i : s[k] # "\n"

\* re.match(pattern, s, re.IGNORECASE): <<group(1), group(2)>>, or <<>>.
\* The lazy group 1 takes the shortest prefix after which the tail matches.
ReMatch(s) ==
    LET ends == {i \in 1..Len(s) : Group1Ok(s, i) /\ TailMatch(s, i) # <<>>}
    IN  IF ends = {} THEN <<>>
        ELSE LET i == CHOOSE i \in ends : \A j \in ends : i <= j
                 g == TailMatch(s, i)
             IN  <<SubSeq(s, 1, i), SubSeq(s, g[1], g[2])>>

\* lines 118-125: json.loads(response), data["description"],
\* float(data["amount"]), and the except clause
ParseFallback(text, reply) ==
    IF reply.j = "invalid" THEN Sentinel(text)                 \* JSONDecodeError
    ELSE IF reply.j # "object" THEN Raised("TypeError", 1)     \* data["description"]
    ELSE IF ~reply.hasDesc \/ ~reply.hasAmount THEN Sentinel(text)      \* KeyError
    ELSE IF reply.amt.t = "number"
    THEN Returned([description |-> reply.desc, amount |-> reply.amt.num], 1)
    ELSE IF reply.amt.t = "string"
    THEN IF FloatOk(reply.amt.str)
         THEN Returned([description |-> reply.desc,
                        amount |-> FloatValue(reply.amt.str)], 1)
         ELSE Sentinel(text)                                   \* ValueError
    ELSE Raised("TypeError", 1)                                \* float(None)

\* _parse(text), given the reply the LLM service gives if it is asked
Parse(text, reply) ==
    LET matched(m) ==
            IF m # <<>> /\ FloatOk(Replace(m[2], ",", "."))
            THEN Returned([description |-> Strip(m[1]),
                           amount |-> FloatValue(Replace(m[2], ",", "."))], 0)
            ELSE IF ~reply.ok THEN Raised("RuntimeError", 1)
            ELSE ParseFallback(text, reply)
    IN  matched(ReMatch(Strip(text)))

(***************************************************************************)
(* agents/classifier.py: ClassifierAgent._categorize                       *)
(***************************************************************************)
Categorize(description, reply) ==
    LET parsed(category) ==
            IF category = "ValueError" THEN Returned("OTHER", 1)
            ELSE Returned(category, 1)
        keyword(category) ==
            IF category # "OTHER" THEN Returned(category, 0)
            ELSE IF ~reply.ok THEN Raised("RuntimeError", 1)
            ELSE parsed(ExpenseCategory(Strip(Upper(reply.text))))
    IN  keyword(from_keywords(description))

(***************************************************************************)
(* The variables of the parts a specification does not exercise.           *)
(***************************************************************************)
NoRequest == [expense_texts |-> <<>>, income |-> None, days_analyzed |-> 1,
              enable_search |-> FALSE]
NoStorage == [expenses |-> <<>>, analyses |-> <<>>]

RunOff ==
    /\ pc = "off"
    /\ request = NoRequest
    /\ idx = 0
    /\ expenses = <<>>
    /\ frame = None
    /\ analysis = None
    /\ recommendation = None
    /\ storage = NoStorage
    /\ error = None
    /\ trace = <<>>
    /\ searcher = FALSE
    /\ unreachable = {}
    /\ response = None

FnOff ==
    /\ fnIn = None
    /\ fnOut = None

ConcOff ==
    /\ client = None
    /\ closed = {}
    /\ created = 0
    /\ rpc = <<>>
    /\ own = <<>>
    /\ calls = <<>>
    /\ observed = <<>>

NotApplied == [kind |-> "none"]

\* the non-empty sequences over S of length at most n
SeqsUpTo(S, n) == UNION {[1..k -> S] : k \in 1..n}

(***************************************************************************)
(* domain/models.py: Expense, and the list operations of the agents.       *)
(***************************************************************************)
NoMetadata == [searched |-> FALSE, search_results |-> 0]

\* Expense(description, amount, category).  Two fields are not fields of the
\* program: text_index, the position of the input text the expense was made
\* from, and search_call, what became of the searcher's call for it ("none",
\* "raised" or "returned")
Expense(description, amount, category, text_index) ==
    [description |-> description, amount |-> amount, category |-> category,
     metadata |-> NoMetadata, text_index |-> text_index, search_call |-> "none"]

\* sum(e.amount for e in expenses)
RECURSIVE SumAmounts(_)
SumAmounts(es) ==
    IF es = <<>> THEN Rat(0)
    ELSE RatAdd(SumAmounts(SubSeq(es, 1, Len(es) - 1)), es[Len(es)].amount)

\* dicts as item sequences: key in d, d[key], d[key] = value
HasKey(d, key) == \E i \in 1..Len(d) : d[i][1] = key
Get(d, key)    == d[CHOOSE i \in 1..Len(d) : d[i][1] = key][2]
\* an assignment that adds an item even when the key is there
PutAppend(d, key, value) == Append(d, <<key, value>>)
Put(d, key, value) ==
    IF HasKey(d, key)
    THEN [i \in 1..Len(d) |-> IF d[i][1] = key THEN <<key, value>> ELSE d[i]]
    ELSE Append(d, <<key, value>>)

(***************************************************************************)
(* tools/code_executor.py and the script AnalystAgent gives it.            *)
(***************************************************************************)
ExecResult(success, output, err) ==
    [success |-> success, output |-> output, error |-> err]

\* the script's first loop:
\*   if category in category_totals: category_totals[category] += amount
\*   else: category_totals[category] = amount
RECURSIVE ScriptTotals(_)
ScriptTotals(expense_data) ==
    IF expense_data = <<>> THEN <<>>
    ELSE LET n == Len(expense_data)
             category_totals == ScriptTotals(SubSeq(expense_data, 1, n - 1))
             category == expense_data[n][1]
             amount == expense_data[n][2]
         IN  IF HasKey(category_totals, category)
             THEN Put(category_totals, category,
                      RatAdd(Get(category_totals, category), amount))
             ELSE Put(category_totals, category, amount)

\* exec of the script: the second loop divides by total for every category,
\* then result = category_totals
RunScript(expense_data, total) ==
    LET category_totals == ScriptTotals(expense_data)
    IN  IF category_totals # <<>> /\ RatIsZero(total)
        THEN ExecResult(FALSE, <<>>, "float division by zero")
        ELSE ExecResult(TRUE, category_totals, "")

\* What the sandbox does with a script is decided outside this repository
\* (RestrictedPython, the thread pool): compile_restricted rejects it, exec
\* raises on a guard the globals lack, the thread outlives the timeout, or
\* the script runs.
SandboxEnvs == {"runs", "rejected", "raises", "timeout"}

\* CodeExecutor.execute(code)
Execute(expense_data, total, env) ==
    CASE env = "timeout"  -> ExecResult(FALSE, <<>>, "Timeout")
      [] env = "rejected" -> ExecResult(FALSE, <<>>, "SyntaxError")
      [] env = "raises"   -> ExecResult(FALSE, <<>>, "NameError")
      [] env = "runs"     -> RunScript(expense_data, total)

(***************************************************************************)
(* agents/analyst.py: AnalystAgent                                         *)
(***************************************************************************)
\* the fallback loop: category_totals[cat] = category_totals.get(cat, 0) + e.amount
RECURSIVE FallbackTotals(_)
FallbackTotals(es) ==
    IF es = <<>> THEN <<>>
    ELSE LET n == Len(es)
             category_totals == FallbackTotals(SubSeq(es, 1, n - 1))
             cat == es[n].category
             old == IF HasKey(category_totals, cat) THEN Get(category_totals, cat)
                    ELSE Rat(0)
         IN  Put(category_totals, cat, RatAdd(old, es[n].amount))

\* expense_data = [(e.category.value, e.amount) for e in expenses]
ExpenseData(es) == [i \in 1..Len(es) |-> <<es[i].category, es[i].amount>>]

\* a breakdown that hands on what the failed sandbox left
CalculateBreakdownNoFallback(es, total, env) ==
    Execute(ExpenseData(es), total, env).output

\* _calculate_breakdown_with_code(expenses, total)
CalculateBreakdownWithCode(es, total, env) ==
    LET execution_result == Execute(ExpenseData(es), total, env)
    IN  IF execution_result.success THEN execution_result.output
        ELSE FallbackTotals(es)

\* budget fields whose remaining amount may go below zero
BudgetFieldsNegative(income, monthly_projection) ==
    IF income # None /\ ~RatIsZero(income[1])
    THEN LET usage_pct == RatMul(RatDiv(monthly_projection, income[1]), Rat(100))
         IN  [usage_pct |-> Some(usage_pct),
              status |-> from_percentage(usage_pct),
              remaining |-> Some(RatSub(income[1], monthly_projection))]
    ELSE [usage_pct |-> None, status |-> "UNKNOWN", remaining |-> None]

\* lines 78-86: the budget fields
BudgetFields(income, monthly_projection) ==
    IF income # None /\ ~RatIsZero(income[1])
    THEN LET usage_pct == RatMul(RatDiv(monthly_projection, income[1]), Rat(100))
         IN  [usage_pct |-> Some(usage_pct),
              status |-> from_percentage(usage_pct),
              remaining |-> Some(IF RatLt(monthly_projection, income[1])
                                 THEN RatSub(income[1], monthly_projection)
                                 ELSE Rat(0))]
    ELSE [usage_pct |-> None, status |-> "UNKNOWN", remaining |-> None]

\* lines 88-100: the trends of the categories with at least 30% of the total;
\* called with total # 0
TrendShare == 30
RECURSIVE Trends(_, _)
Trends(category_breakdown, total) ==
    IF category_breakdown = <<>> THEN <<>>
    ELSE LET n == Len(category_breakdown)
             cat == category_breakdown[n][1]
             amount == category_breakdown[n][2]
             pct == RatMul(RatDiv(amount, total), Rat(100))
             before == Trends(SubSeq(category_breakdown, 1, n - 1), total)
         IN  IF RatLe(Rat(TrendShare), pct)
             THEN Append(before, [category |-> cat, amount |-> amount, pct |-> pct])
             ELSE before

EnableCodeExecutor == TRUE    \* core/config.py: enable_code_executor

\* AnalystAgent.execute(expenses, days_analyzed, income): how it ends, with the
\* locals it had computed by then
AnalystExecute(es, days_analyzed, income, env) ==
    IF es = <<>>
    THEN [kind |-> "raise", exc |-> "ValueError", locals |-> None]
    ELSE
    LET total == SumAmounts(es)
        daily_rate == RatDiv(total, Rat(days_analyzed))
        monthly_projection == RatMul(daily_rate, Rat(30))
        category_breakdown ==
            IF EnableCodeExecutor THEN CalculateBreakdownWithCode(es, total, env)
            ELSE FallbackTotals(es)
        budget == BudgetFields(income, monthly_projection)
        locals == [total |-> total, daily_rate |-> daily_rate,
                   monthly_projection |-> monthly_projection,
                   category_breakdown |-> category_breakdown,
                   usage_pct |-> budget.usage_pct, status |-> budget.status,
                   remaining |-> budget.remaining,
                   execution_result |-> IF EnableCodeExecutor
                                        THEN Some(Execute(ExpenseData(es), total, env))
                                        ELSE None]
    IN  IF RatIsZero(total)
        THEN [kind |-> "raise", exc |-> "ZeroDivisionError", locals |-> Some(locals)]
        ELSE [kind |-> "return", locals |-> Some(locals),
              value |-> [total_expenses |-> total,
                         daily_rate |-> daily_rate,
                         monthly_projection |-> monthly_projection,
                         days_analyzed |-> days_analyzed,
                         category_breakdown |-> category_breakdown,
                         budget_status |-> budget.status,
                         income |-> income,
                         remaining_budget |-> budget.remaining,
                         usage_percentage |-> budget.usage_pct,
                         trends |-> Trends(category_breakdown, total)]]

(***************************************************************************)
(* agents/searcher.py: SearcherAgent                                       *)
(***************************************************************************)
SearchThreshold == 100    \* Orchestrator.__init__: search_threshold
MaxResults      == 5      \* SearchTool.__init__: max_results
KeptResults     == 3      \* results[:3]

\* a selection that leaves out an expense exactly at the threshold
SearchableAbove(e) == RatLt(Rat(SearchThreshold), e.amount) \/ RatIsZero(e.amount)

\* e.amount >= self.threshold or e.amount == 0.0
Searchable(e) == RatLe(Rat(SearchThreshold), e.amount) \/ RatIsZero(e.amount)

\* what search_product_price gives: a number of results, or "raise"
SearchOutcomes == {"raise", "0", "5"}
ResultCount(outcome) ==
    CASE outcome = "0" -> 0 [] outcome = "5" -> MaxResults

\* a loop body that sets the searched flag before it calls the search tool
SearchedFlagFirst(e, outcome) ==
    [e EXCEPT !.search_call = IF outcome = "raise" THEN "raised" ELSE "returned",
              !.metadata = [searched |-> TRUE,
                            search_results |-> IF outcome = "5" THEN KeptResults
                                               ELSE 0]]

\* the body of the loop for one expense
Searched(e, outcome) ==
    IF outcome = "raise" THEN [e EXCEPT !.search_call = "raised"]
    ELSE IF ResultCount(outcome) = 0 THEN [e EXCEPT !.search_call = "returned"]
    ELSE [e EXCEPT !.search_call = "returned",
                   !.metadata =
            [searched |-> TRUE,
             search_results |-> IF ResultCount(outcome) < KeptResults
                                THEN ResultCount(outcome) ELSE KeptResults]]

(***************************************************************************)
(* agents/strategist.py: StrategistAgent                                   *)
(***************************************************************************)
\* format(x, ".0f"): the nearest integer, a tie going to the even one
Round0(x) ==
    LET q == x[1] \div x[2]
        r == x[1] - q * x[2]
    IN  IF 2 * r < x[2] THEN q
        ELSE IF 2 * r > x[2] THEN q + 1
        ELSE IF q % 2 = 0 THEN q ELSE q + 1

\* the same sort without reverse=True
SortedCatsAscending(d) ==
    LET before(j, i) == RatLt(d[j][2], d[i][2]) \/ (d[j][2] = d[i][2] /\ j < i)
        rank(i) == Cardinality({j \in 1..Len(d) : before(j, i)})
    IN  [k \in 1..Len(d) |-> d[CHOOSE i \in 1..Len(d) : rank(i) = k - 1]]

\* sorted(category_breakdown.items(), key=lambda x: x[1], reverse=True): the
\* sort is stable, so items of equal value keep their order
SortedCats(d) ==
    LET before(j, i) == RatLt(d[i][2], d[j][2]) \/ (d[j][2] = d[i][2] /\ j < i)
        rank(i) == Cardinality({j \in 1..Len(d) : before(j, i)})
    IN  [k \in 1..Len(d) |-> d[CHOOSE i \in 1..Len(d) : rank(i) = k - 1]]

ActionItem(description, priority, reason, potential_savings) ==
    [description |-> description, priority |-> priority, reason |-> reason,
     potential_savings |-> potential_savings]

\* any(cat in a.description for a in actions)
Named(cat, actions) ==
    \E k \in 1..Len(actions) : Contains(actions[k].description, CategoryChars[cat])

\* _generate_actions, lines 236-251: the extra action for the first category
\* of the breakdown whose share is above 40% and that no action names yet
ExtraAction(a, actions) ==
    LET d == a.category_breakdown
        pct(i) == IF RatLt(Rat(0), a.total_expenses)
                  THEN RatMul(RatDiv(d[i][2], a.total_expenses), Rat(100))
                  ELSE Rat(0)
        hits == {i \in 1..Len(d) :
                    RatLt(Rat(40), pct(i)) /\ ~Named(d[i][1], actions)}
    IN  IF hits = {} THEN <<>>
        ELSE LET i == CHOOSE i \in hits : \A j \in hits : i <= j
             IN  << ActionItem(<<"C", "r", "e", "a", "t", "e", " ", "s", "a", "v", "i", "n", "g", "s", " ", "p", "l", "a", "n", " ", "f", "o", "r", " ">> \o CategoryChars[d[i][1]]
                                   \o <<" ", "c", "a", "t", "e", "g", "o", "r", "y">>,
                               "MEDIUM",
                               <<"Excessively high percentage",
                                 Round0(RatMul(pct(i), Rat(10)))>>,
                               RatDiv(RatMul(RatMul(d[i][2], RatNorm(15, 100)), Rat(30)),
                                      Rat(a.days_analyzed))) >>

\* _generate_actions, lines 150-234: the actions of the budget status
StatusActions(a) ==
    LET monthly_reduction == RatMul(a.monthly_projection, RatNorm(1, 10))
        sorted_cats == SortedCats(a.category_breakdown)
        top_categories == SubSeq(sorted_cats, 1,
                                 IF Len(sorted_cats) < 2 THEN Len(sorted_cats) ELSE 2)
        savings(amount, share) ==
            RatDiv(RatMul(RatMul(amount, RatNorm(share, 100)), Rat(30)),
                   Rat(a.days_analyzed))
    IN  IF a.budget_status = "HEALTHY"
        THEN << ActionItem(<<"T", "r", "a", "c", "k", " ", "y", "o", "u", "r", " ", "w", "e", "e", "k", "l", "y", " ", "e", "x", "p", "e", "n", "s", "e", "s">>, "LOW",
                           <<"Budget control">>, Rat(0)),
                ActionItem(<<"S", "e", "t", " ", "a", " ", "s", "a", "v", "i", "n", "g", "s", " ", "g", "o", "a", "l">>, "LOW",
                           <<"Long-term planning">>,
                           RatMul(monthly_reduction, Rat(2))) >>
        ELSE IF a.budget_status = "WARNING"
        THEN (IF top_categories # <<>>
              THEN << ActionItem(<<"R", "e", "d", "u", "c", "e", " ">> \o CategoryChars[top_categories[1][1]]
                                     \o <<" ", "s", "p", "e", "n", "d", "i", "n", "g", " ", "b", "y", " ", "1", "5", "%">>,
                                 "MEDIUM",
                                 <<"Highest spending category",
                                   Round0(top_categories[1][2])>>,
                                 savings(top_categories[1][2], 15)) >>
              ELSE <<>>)
             \o << ActionItem(<<"C", "a", "n", "c", "e", "l", " ", "u", "n", "n", "e", "c", "e", "s", "s", "a", "r", "y", " ", "s", "u", "b", "s", "c", "r", "i", "p", "t", "i", "o", "n", "s">>, "MEDIUM",
                              <<"Reduce recurring costs">>, monthly_reduction) >>
        ELSE (IF top_categories # <<>>
              THEN << ActionItem(<<"U", "R", "G", "E", "N", "T", ":", " ", "C", "u", "t", " ">> \o CategoryChars[top_categories[1][1]]
                                     \o <<" ", "s", "p", "e", "n", "d", "i", "n", "g", " ", "b", "y", " ", "3", "0", "%">>,
                                 "HIGH",
                                 <<"Highest category", Round0(top_categories[1][2]),
                                   Round0(RatMul(RatDiv(top_categories[1][2],
                                                        a.total_expenses), Rat(100)))>>,
                                 savings(top_categories[1][2], 30)) >>
                   \o (IF Len(top_categories) > 1
                       THEN << ActionItem(<<"R", "e", "d", "u", "c", "e", " ">>
                                              \o CategoryChars[top_categories[2][1]]
                                              \o <<" ", "s", "p", "e", "n", "d", "i", "n", "g", " ", "b", "y", " ", "2", "0", "%">>,
                                          "HIGH",
                                          <<"Second highest category",
                                            Round0(top_categories[2][2])>>,
                                          savings(top_categories[2][2], 20)) >>
                       ELSE <<>>)
              ELSE <<>>)
             \o << ActionItem(<<"S", "t", "o", "p", " ", "a", "l", "l", " ", "n", "o", "n", "-", "e", "s", "s", "e", "n", "t", "i", "a", "l", " ", "s", "p", "e", "n", "d", "i", "n", "g", " ", "i", "m", "m", "e", "d", "i", "a", "t", "e", "l", "y">>,
                              "URGENT", <<"Budget at critical level">>,
                              RatMul(monthly_reduction, Rat(2))) >>

\* _generate_actions(analysis)
GenerateActions(a) == StatusActions(a) \o ExtraAction(a, StatusActions(a))

\* _generate_goals(analysis)
GenerateGoals(a) ==
    << [description |-> "Daily spending target",
        current_value |-> a.daily_rate,
        target_value |-> RatMul(a.daily_rate, RatNorm(9, 10)),
        timeframe |-> "This month"],
       [description |-> "Monthly spending target",
        current_value |-> a.monthly_projection,
        target_value |-> RatMul(a.monthly_projection, RatNorm(85, 100)),
        timeframe |-> "This month"] >>

(***************************************************************************)
(* Spec: one run of Orchestrator.analyze_expenses, as the /analyze handler *)
(* starts it.                                                              *)
(***************************************************************************)
MaxBatch == 2    \* expense texts of a request

Texts ==
    {<<"k", "a", "h", "v", "e", " ", "5", "0", " ", "T", "L">>, <<"l", "a", "p", "t", "o", "p", " ", "8", "4", "2", "0", " ", "T", "L">>, <<"h", "e", "d", "i", "y", "e">>}

\* AnalyzeRequest: income is absent or > 0, days_analyzed >= 1
Incomes == {None, Some(Rat(1500)), Some(Rat(15000))}
Days    == {1, 7}

Requests ==
    [expense_texts : SeqsUpTo(Texts, MaxBatch), income : Incomes,
     days_analyzed : Days, enable_search : BOOLEAN]

\* replies of the LLM service during a run
RunParseReplies ==
    { JsonFailed,
      JsonReply("invalid", FALSE, <<>>, FALSE, JsonAmount("null", Rat(0), <<>>)),
      JsonReply("object", TRUE, <<"h", "e", "d", "i", "y", "e">>, TRUE, JsonAmount("number", Rat(100), <<>>)) }
RunCategorizeReplies == {GenerateFailed, Reply(<<"b", "a", "n", "a", "n", "a">>)}
RunStrategistReplies == {GenerateFailed, Reply(<<"S", "p", "e", "n", "d", " ", "l", "e", "s", "s", ".">>)}

Init ==
    /\ request \in Requests
    /\ pc = "classify"
    /\ idx = 0
    /\ expenses = <<>>
    /\ frame = None
    /\ analysis = None
    /\ recommendation = None
    /\ storage = NoStorage
    /\ error = None
    /\ trace = <<>>
    /\ searcher \in BOOLEAN
    /\ unreachable = {}
    /\ response = None
    /\ FnOff /\ ConcOff

Fail(exc, stage) ==
    /\ pc' = "failed"
    /\ error' = Some([exc |-> exc, stage |-> stage])

\* ClassifierAgent._classify_single(text): the Expense, or the exception
ClassifySingle(text, text_index, parse_reply, categorize_reply) ==
    LET categorized(p, c) ==
            IF c.kind = "raise" THEN c
            ELSE Returned(Expense(p.value.description, p.value.amount,
                                  c.value, text_index), p.llm + c.llm)
        parsed(p) ==
            IF p.kind = "raise" THEN p
            ELSE categorized(p, Categorize(p.value.description, categorize_reply))
    IN  parsed(Parse(text, parse_reply))

\* ClassifierAgent.execute, one turn of its loop: an exception is logged and
\* the text is skipped
ClassifyItem ==
    /\ pc = "classify"
    /\ idx < Len(request.expense_texts)
    /\ \E parse_reply \in RunParseReplies, categorize_reply \in RunCategorizeReplies :
          LET classified(r) ==
                  /\ expenses' = IF r.kind = "return"
                                  THEN Append(expenses, r.value) ELSE expenses
                  /\ unreachable' = IF r.kind = "raise" /\ r.exc = "RuntimeError"
                                    THEN unreachable \cup {"classify"}
                                    ELSE unreachable
          IN  classified(ClassifySingle(request.expense_texts[idx + 1], idx + 1,
                                        parse_reply, categorize_reply))
    /\ idx' = idx + 1
    /\ UNCHANGED <<pc, request, frame, analysis, recommendation, storage, error,
                   trace, searcher, response, fnVars, concVars>>

\* an orchestrator that hands an empty list on to the next stage
ClassifyReturnUnchecked ==
    /\ pc = "classify"
    /\ idx = Len(request.expense_texts)
    /\ trace' = Append(trace, "classify")
    /\ idx' = 0
    /\ pc' = IF request.enable_search /\ searcher THEN "search" ELSE "analyze"
    /\ UNCHANGED <<request, expenses, frame, analysis, recommendation, storage,
                   error, searcher, unreachable, response, fnVars, concVars>>

\* an orchestrator that looks at the request's enable_search only
ClassifyReturnRequestOnly ==
    /\ pc = "classify"
    /\ idx = Len(request.expense_texts)
    /\ trace' = Append(trace, "classify")
    /\ idx' = 0
    /\ IF expenses = <<>>
       THEN Fail("ValueError", "orchestrator")
       ELSE /\ pc' = IF request.enable_search THEN "search" ELSE "analyze"
            /\ UNCHANGED error
    /\ UNCHANGED <<request, expenses, frame, analysis, recommendation, storage,
                   searcher, unreachable, response, fnVars, concVars>>

\* the classifier returns; orchestrator lines 86-95
ClassifyReturn ==
    /\ pc = "classify"
    /\ idx = Len(request.expense_texts)
    /\ trace' = Append(trace, "classify")
    /\ idx' = 0
    /\ IF expenses = <<>>
       THEN Fail("ValueError", "orchestrator")
       ELSE /\ pc' = IF request.enable_search /\ searcher
                     THEN "search" ELSE "analyze"
            /\ UNCHANGED error
    /\ UNCHANGED <<request, expenses, frame, analysis, recommendation, storage,
                   searcher, unreachable, response, fnVars, concVars>>

\* the positions of the searchable expenses the loop has not reached yet
ToSearch == {k \in (idx + 1)..Len(expenses) : Searchable(expenses[k])}

\* SearcherAgent.execute, one turn of its loop
SearchItem ==
    /\ pc = "search"
    /\ ToSearch # {}
    /\ LET k == CHOOSE k \in ToSearch : \A j \in ToSearch : k <= j
       IN  /\ \E outcome \in SearchOutcomes :
                expenses' = [expenses EXCEPT ![k] = Searched(expenses[k], outcome)]
           /\ idx' = k
    /\ UNCHANGED <<pc, request, frame, analysis, recommendation, storage, error,
                   trace, searcher, unreachable, response, fnVars, concVars>>

\* the searcher returns
SearchReturn ==
    /\ pc = "search"
    /\ ToSearch = {}
    /\ pc' = "analyze"
    /\ idx' = 0
    /\ trace' = Append(trace, "search")
    /\ UNCHANGED <<request, expenses, frame, analysis, recommendation, storage,
                   error, searcher, unreachable, response, fnVars, concVars>>

\* orchestrator line 100: await self.analyst.execute(...)
Analyze ==
    /\ pc = "analyze"
    /\ \E env \in SandboxEnvs :
          LET r == AnalystExecute(expenses, request.days_analyzed,
                                  request.income, env)
          IN  /\ frame' = r.locals
              /\ IF r.kind = "return"
                 THEN /\ analysis' = Some(r.value)
                      /\ pc' = "strategize"
                      /\ trace' = Append(trace, "analyze")
                      /\ UNCHANGED error
                 ELSE /\ Fail(r.exc, "analyze")
                      /\ UNCHANGED <<analysis, trace>>
    /\ UNCHANGED <<request, idx, expenses, recommendation, storage, searcher,
                   unreachable, response, fnVars, concVars>>

\* orchestrator line 104: await self.strategist.execute(analysis): the LLM
\* call comes first and its RuntimeError leaves execute.  The summary and the
\* suggestions of the recommendation are read from llm_text, which is kept
Strategize ==
    /\ pc = "strategize"
    /\ \E reply \in RunStrategistReplies :
          IF reply.ok
          THEN /\ recommendation' = Some([llm_text |-> reply.text,
                                          action_items |-> GenerateActions(analysis[1]),
                                          goals |-> GenerateGoals(analysis[1])])
               /\ pc' = "save_expenses"
               /\ trace' = Append(trace, "strategize")
               /\ UNCHANGED <<error, unreachable>>
          ELSE /\ Fail("RuntimeError", "strategize")
               /\ unreachable' = unreachable \cup {"strategize"}
               /\ UNCHANGED <<recommendation, trace>>
    /\ UNCHANGED <<request, idx, expenses, frame, analysis, storage, searcher,
                   response, fnVars, concVars>>

\* orchestrator line 108: await self.storage.save_expenses(expenses); the
\* file is overwritten, or opening or writing it raises
SaveExpenses ==
    /\ pc = "save_expenses"
    /\ \E written \in BOOLEAN :
          IF written
          THEN /\ storage' = [storage EXCEPT !.expenses = expenses]
               /\ pc' = "save_analysis"
               /\ UNCHANGED <<error, unreachable>>
          ELSE /\ Fail("OSError", "persist")
               /\ unreachable' = unreachable \cup {"persist"}
               /\ UNCHANGED storage
    /\ UNCHANGED <<request, idx, expenses, frame, analysis, recommendation, trace,
                   searcher, response, fnVars, concVars>>

\* orchestrator lines 109-121: await self.storage.save_analysis(analysis),
\* then the result is returned
SaveAnalysis ==
    /\ pc = "save_analysis"
    /\ \E written \in BOOLEAN :
          IF written
          THEN /\ storage' = [storage EXCEPT !.analyses = Append(@, analysis[1])]
               /\ pc' = "done"
               /\ trace' = Append(trace, "persist")
               /\ UNCHANGED <<error, unreachable>>
          ELSE /\ Fail("OSError", "persist")
               /\ unreachable' = unreachable \cup {"persist"}
               /\ UNCHANGED <<storage, trace>>
    /\ UNCHANGED <<request, idx, expenses, frame, analysis, recommendation,
                   searcher, response, fnVars, concVars>>

\* api/routes.py, analyze_expenses: the result is converted to the response
\* models, where AnalysisResponse takes budget_percentage: float from
\* analysis.usage_percentage; a ValueError (pydantic's ValidationError is one)
\* is answered with 400 and any other exception with 500
Respond ==
    /\ pc \in {"done", "failed"}
    /\ response = None
    /\ response' = Some(IF pc = "failed"
                        THEN IF error[1].exc = "ValueError" THEN 400 ELSE 500
                        ELSE IF analysis[1].usage_percentage = None THEN 400
                        ELSE 200)
    /\ UNCHANGED <<pc, request, idx, expenses, frame, analysis, recommendation,
                   storage, error, trace, searcher, unreachable, fnVars, concVars>>

Next ==
    \/ ClassifyItem
    \/ ClassifyReturn
    \/ SearchItem
    \/ SearchReturn
    \/ Analyze
    \/ Strategize
    \/ SaveExpenses
    \/ SaveAnalysis
    \/ Respond

Spec == Init /\ [][Next]_vars

(***************************************************************************)
(* SpecConc: the /analyze and /health handlers of one process, each inside *)
(* "async with llm_service" on the one LLMService that init_services       *)
(* builds.  A handler gives up control only at an await, so each action is *)
(* the code between two awaits.                                            *)
(***************************************************************************)
MaxCalls == 2    \* generate calls of one analyze request

AnalyzeHandlers == {"analyze1", "analyze2"}
Handlers == AnalyzeHandlers \cup {"health"}

ConcInit ==
    /\ client = None                       \* LLMService.__init__: self._client = None
    /\ closed = {}
    /\ created = 0
    /\ rpc = [r \in Handlers |-> "idle"]
    /\ own = [r \in Handlers |-> None]
    /\ calls = [r \in Handlers |-> 0]
    /\ observed = [r \in Handlers |-> None]
    /\ RunOff /\ FnOff

\* __aenter__: self._client = httpx.AsyncClient(...)
Enter(r) ==
    /\ rpc[r] = "idle"
    /\ created' = created + 1
    /\ client' = Some(created + 1)
    /\ own' = [own EXCEPT ![r] = Some(created + 1)]
    /\ rpc' = [rpc EXCEPT ![r] = "entered"]
    /\ UNCHANGED <<closed, calls, observed, runVars, fnVars>>

\* generate, up to the await of the post: the client is a temporary one when
\* self._client is unset, else whatever self._client holds now; a closed
\* client refuses to send
GenerateStart(r) ==
    /\ r \in AnalyzeHandlers
    /\ rpc[r] = "entered"
    /\ calls[r] < MaxCalls
    /\ calls' = [calls EXCEPT ![r] = @ + 1]
    /\ IF client = None
       THEN /\ observed' = [observed EXCEPT ![r] =
                               Some([client |-> 0, mine |-> TRUE, open |-> TRUE,
                                     result |-> "pending"])]
            /\ rpc' = [rpc EXCEPT ![r] = "posting"]
       ELSE IF client[1] \in closed
       THEN /\ observed' = [observed EXCEPT ![r] =
                               Some([client |-> client[1],
                                     mine |-> client = own[r], open |-> FALSE,
                                     result |-> "RuntimeError"])]
            /\ rpc' = [rpc EXCEPT ![r] = "raised"]
       ELSE /\ observed' = [observed EXCEPT ![r] =
                               Some([client |-> client[1],
                                     mine |-> client = own[r], open |-> TRUE,
                                     result |-> "pending"])]
            /\ rpc' = [rpc EXCEPT ![r] = "posting"]
    /\ UNCHANGED <<client, closed, created, own, runVars, fnVars>>

\* generate, from the await of the post on: the backend answers or fails; a
\* client closed while the request was in flight gives either
GenerateEnd(r) ==
    /\ rpc[r] = "posting"
    /\ \E result \in {"response", "RuntimeError"} :
          /\ observed' = [observed EXCEPT ![r] =
                Some([observed[r][1] EXCEPT
                        !.open = observed[r][1].client \notin closed,
                        !.result = result])]
          /\ rpc' = [rpc EXCEPT ![r] =
                IF result = "response" THEN "entered" ELSE "raised"]
    /\ UNCHANGED <<client, closed, created, own, calls, runVars, fnVars>>

\* check_health: a client of its own
CheckHealth(r) ==
    /\ r = "health"
    /\ rpc[r] = "entered"
    /\ rpc' = [rpc EXCEPT ![r] = "checked"]
    /\ UNCHANGED <<client, closed, created, own, calls, observed, runVars, fnVars>>

\* __aexit__: if self._client: await self._client.aclose().  The run of an
\* analyze request has returned (the strategist has called generate) or an
\* exception is on its way out
Exit(r) ==
    /\ \/ r = "health" /\ rpc[r] = "checked"
       \/ r \in AnalyzeHandlers /\ rpc[r] = "entered" /\ calls[r] > 0
       \/ r \in AnalyzeHandlers /\ rpc[r] = "raised"
    /\ closed' = IF client = None THEN closed ELSE closed \cup {client[1]}
    /\ rpc' = [rpc EXCEPT ![r] = "left"]
    /\ UNCHANGED <<client, created, own, calls, observed, runVars, fnVars>>

ConcNext ==
    \E r \in Handlers :
        \/ Enter(r)
        \/ GenerateStart(r)
        \/ GenerateEnd(r)
        \/ CheckHealth(r)
        \/ Exit(r)

SpecConc == ConcInit /\ [][ConcNext]_vars

(***************************************************************************)
(* SpecStatus: BudgetStatus.from_percentage applied to one percentage.     *)
(***************************************************************************)
PctResolution == 1000   \* percentages are multiples of 1/PctResolution ...
PctWindow     == 20     \* ... within PctWindow steps of 0, 80 and 100,
PctMargin     == 30     \* and whole numbers from -PctMargin to 100 + PctMargin

Percentages ==
    {RatNorm(b * PctResolution + k, PctResolution) :
        b \in {0, HealthyBelow, WarningUpTo}, k \in (-PctWindow)..PctWindow}
    \cup {Rat(k) : k \in (-PctMargin)..(WarningUpTo + PctMargin)}

StatusInit ==
    /\ fnIn \in Percentages
    /\ fnOut = NotApplied
    /\ RunOff /\ ConcOff

StatusApply ==
    /\ fnOut = NotApplied
    /\ fnOut' = Returned(from_percentage(fnIn), 0)
    /\ UNCHANGED <<fnIn, runVars, concVars>>

StatusNext == StatusApply
SpecStatus == StatusInit /\ [][StatusNext]_vars

(***************************************************************************)
(* SpecParse: ClassifierAgent._parse applied to one text.                  *)
(***************************************************************************)
MaxDescLen    == 3   \* characters of a generated description
MaxIntDigits  == 1   \* digits before the decimal separator
MaxFracDigits == 1   \* digits after it

DescChars   == {"a", "7", " "}
NumberChars == {"0", "5"}
Tags        == {<<"T", "L">>, <<"t", "l">>, <<"T", "l">>, <<"t", "L">>, <<"u20ba">>}

Descs     == {d \in SeqsUpTo(DescChars, MaxDescLen) : Strip(d) # <<>>}
IntParts  == SeqsUpTo(NumberChars, MaxIntDigits)
FracParts == {<<>>} \cup
             {<<sep>> \o f : sep \in {".", ","},
                            f \in SeqsUpTo(NumberChars, MaxFracDigits)}

\* "<desc> <number> <tag>" and what it was built from
WellFormed ==
    {[wf |-> TRUE, text |-> d \o <<" ">> \o ip \o fp \o <<" ">> \o tag,
      desc |-> d, ip |-> ip, fp |-> fp] :
        d \in Descs, ip \in IntParts, fp \in FracParts, tag \in Tags}

\* texts the strict pattern does not match
Unmatched ==
    {[wf |-> FALSE, text |-> t, desc |-> <<>>, ip |-> <<>>, fp |-> <<>>] :
        t \in {<<"h", "e", "d", "i", "y", "e">>, <<"a", "5", " ", "T", "L">>, <<"5", " ", "T", "L">>, <<"a", " ", "5">>, <<"a", " ", "5", " ", "U", "S", "D">>,
               <<"a", " ", "5", ".", "T", "L">>, <<"a", " ", "5", ",", "5", ",", "5", " ", "T", "L">>, <<"a", "\n", "b", " ", "5", " ", "T", "L">>, <<"T", "L">>, <<>>}}

ParseInputs == WellFormed \cup Unmatched

\* the replies of the LLM service to the parse prompt
ParseReplies ==
    { JsonFailed,
      JsonReply("invalid", FALSE, <<>>, FALSE, JsonAmount("null", Rat(0), <<>>)),
      JsonReply("array", FALSE, <<>>, FALSE, JsonAmount("null", Rat(0), <<>>)),
      JsonReply("object", TRUE, <<"h", "e", "d", "i", "y", "e">>, TRUE, JsonAmount("number", Rat(75), <<>>)),
      JsonReply("object", TRUE, <<"h", "e", "d", "i", "y", "e">>, TRUE, JsonAmount("number", Rat(-5), <<>>)),
      JsonReply("object", TRUE, <<"h", "e", "d", "i", "y", "e">>, TRUE, JsonAmount("string", Rat(0), <<"7", "5", ".", "5">>)),
      JsonReply("object", TRUE, <<"h", "e", "d", "i", "y", "e">>, TRUE, JsonAmount("string", Rat(0), <<"a", "b", "c">>)),
      JsonReply("object", TRUE, <<"h", "e", "d", "i", "y", "e">>, TRUE, JsonAmount("string", Rat(0), <<"-", "5">>)),
      JsonReply("object", TRUE, <<"h", "e", "d", "i", "y", "e">>, TRUE, JsonAmount("null", Rat(0), <<>>)),
      JsonReply("object", TRUE, <<"h", "e", "d", "i", "y", "e">>, FALSE, JsonAmount("null", Rat(0), <<>>)),
      JsonReply("object", FALSE, <<>>, TRUE, JsonAmount("number", Rat(75), <<>>)) }

\* the reply generate gave, when it was called at all
Asked(result, reply) == IF result.llm > 0 THEN <<reply>> ELSE <<>>

ParseInit ==
    /\ fnIn \in ParseInputs
    /\ fnOut = NotApplied
    /\ RunOff /\ ConcOff

ParseApply ==
    /\ fnOut = NotApplied
    /\ \E reply \in ParseReplies :
          LET r == Parse(fnIn.text, reply)
          IN  fnOut' = [kind |-> "applied", result |-> r, asked |-> Asked(r, reply)]
    /\ UNCHANGED <<fnIn, runVars, concVars>>

ParseNext == ParseApply
SpecParse == ParseInit /\ [][ParseNext]_vars

(***************************************************************************)
(* SpecCategorize: ClassifierAgent._categorize applied to one description. *)
(***************************************************************************)
MaxWords == 2    \* words of a generated description

Words ==
    <<<<"s", "t", "a", "r", "b", "u", "c", "k", "s">>, <<"l", "a", "t", "t", "e">>, <<"a", "s", "u", "s">>, <<"l", "a", "p", "t", "o", "p">>, <<"K", "a", "h", "v", "e">>,
      <<"u", "b", "e", "r">>, <<"t", "e", "l", "e", "f", "o", "n">>, <<"h", "e", "d", "i", "y", "e">>, <<"x", "y", "z">>, <<"k", "i", "r", "a">>>>

RECURSIVE Join(_)
Join(ws) ==
    IF Len(ws) = 1 THEN Words[ws[1]]
    ELSE Words[ws[1]] \o <<" ">> \o Join(Tail(ws))

Descriptions == {Join(ws) : ws \in SeqsUpTo(1..Len(Words), MaxWords)}

\* the replies of the LLM service to the categorize prompt
CategorizeReplies ==
    { GenerateFailed, Reply(<<"F", "O", "O", "D">>), Reply(<<"s", "h", "o", "p", "p", "i", "n", "g">>), Reply(<<"H", "e", "a", "l", "t", "h">>),
      Reply(<<"O", "T", "H", "E", "R">>), Reply(<<"b", "a", "n", "a", "n", "a">>), Reply(<<"F", "O", "O", "D", ".">>), Reply(<<>>) }

CategorizeInit ==
    /\ fnIn \in Descriptions
    /\ fnOut = NotApplied
    /\ RunOff /\ ConcOff

CategorizeApply ==
    /\ fnOut = NotApplied
    /\ \E reply \in CategorizeReplies :
          LET r == Categorize(fnIn, reply)
          IN  fnOut' = [kind |-> "applied", result |-> r, asked |-> Asked(r, reply)]
    /\ UNCHANGED <<fnIn, runVars, concVars>>

CategorizeNext == CategorizeApply
SpecCategorize == CategorizeInit /\ [][CategorizeNext]_vars

(***************************************************************************)
(* SpecSelect: LLMService.select_model applied to one task type, for each  *)
(* configuration of the service.                                           *)
(***************************************************************************)
\* a selection that treats recommend like every other task
select_model_always_fast(strategy, fast_model, accurate_model, task_type) ==
    IF strategy = "accurate" THEN accurate_model ELSE fast_model

\* select_model(task_type) of a service with self.strategy, self.fast_model
\* and self.accurate_model
select_model(strategy, fast_model, accurate_model, task_type) ==
    IF strategy = "fast" THEN fast_model
    ELSE IF strategy = "accurate" THEN accurate_model
    ELSE IF task_type \in {"classify", "search", "analyze"} THEN fast_model
    ELSE IF task_type = "recommend" THEN accurate_model
    ELSE fast_model

\* config.model_strategy, config.ollama_fast_model, config.ollama_accurate_model
\* (both models default to llama3.2:3b) and the task types callers pass, with
\* some they do not
SelectInit ==
    /\ fnIn \in [strategy : {"auto", "fast", "accurate", "AUTO"},
                 fast_model : {"llama3.2:3b", "llama3.2:1b"},
                 accurate_model : {"llama3.2:3b", "llama3.1:8b"},
                 task_type : {"classify", "search", "analyze", "recommend",
                              "general", "summarize", "Recommend", ""}]
    /\ fnOut = NotApplied
    /\ RunOff /\ ConcOff

SelectApply ==
    /\ fnOut = NotApplied
    /\ fnOut' = Returned(select_model(fnIn.strategy, fnIn.fast_model,
                                      fnIn.accurate_model, fnIn.task_type), 0)
    /\ UNCHANGED <<fnIn, runVars, concVars>>

SpecSelect == SelectInit /\ [][SelectApply]_vars

(***************************************************************************)
(* SpecPerm: the classifier, the analyst and the strategist applied to a   *)
(* batch and to a permutation of it, each text with the same replies of    *)
(* the LLM backend in both.                                                *)
(***************************************************************************)
MaxPermBatch == 2    \* texts of the batch

\* a text with the replies generate gives for it (to _parse, to _categorize)
PermItems ==
    { [text |-> <<"k", "a", "h", "v", "e", " ", "5", "0", " ", "T", "L">>, parse_reply |-> JsonFailed,
       categorize_reply |-> GenerateFailed],
      [text |-> <<"u", "b", "e", "r", " ", "5", "0", " ", "T", "L">>, parse_reply |-> JsonFailed,
       categorize_reply |-> GenerateFailed],
      [text |-> <<"l", "a", "p", "t", "o", "p", " ", "8", "4", "2", "0", " ", "T", "L">>, parse_reply |-> JsonFailed,
       categorize_reply |-> GenerateFailed],
      [text |-> <<"h", "e", "d", "i", "y", "e">>,
       parse_reply |-> JsonReply("object", TRUE, <<"h", "e", "d", "i", "y", "e">>, TRUE,
                                 JsonAmount("number", Rat(100), <<>>)),
       categorize_reply |-> Reply(<<"b", "a", "n", "a", "n", "a">>)],
      [text |-> <<"h", "e", "d", "i", "y", "e">>, parse_reply |-> JsonFailed,
       categorize_reply |-> GenerateFailed] }

\* ClassifierAgent.execute(expense_texts), as a function of the texts and
\* their replies
RECURSIVE ClassifierExecute(_)
ClassifierExecute(items) ==
    IF items = <<>> THEN <<>>
    ELSE LET n == Len(items)
             classified(before, r) ==
                 IF r.kind = "return" THEN Append(before, r.value) ELSE before
         IN  classified(ClassifierExecute(SubSeq(items, 1, n - 1)),
                        ClassifySingle(items[n].text, n, items[n].parse_reply,
                                       items[n].categorize_reply))

\* analyze_expenses without search and persistence, the strategist's LLM call
\* succeeding: how the run ends
RunOutcome(items, days_analyzed, income, env) ==
    LET strategized(a) ==
            [kind |-> "return", analysis |-> a,
             action_items |-> GenerateActions(a),
             goals |-> GenerateGoals(a)]
        analyzed(r) ==
            IF r.kind = "raise" THEN [kind |-> "raise", exc |-> r.exc]
            ELSE strategized(r.value)
        classified(es) ==
            IF es = <<>> THEN [kind |-> "raise", exc |-> "ValueError"]
            ELSE analyzed(AnalystExecute(es, days_analyzed, income, env))
    IN  classified(ClassifierExecute(items))

PermInit ==
    /\ \E items \in SeqsUpTo(PermItems, MaxPermBatch) :
          \E p \in [1..Len(items) -> 1..Len(items)] :
             /\ \A i, j \in 1..Len(items) : p[i] = p[j] => i = j
             /\ fnIn \in [items : {items},
                          permuted : {[i \in 1..Len(items) |-> items[p[i]]]},
                          days_analyzed : {7},
                          income : {None, Some(Rat(300)), Some(Rat(500)),
                                    Some(Rat(15000))}]
    /\ fnOut = NotApplied
    /\ RunOff /\ ConcOff

PermApply ==
    /\ fnOut = NotApplied
    /\ \E env1, env2 \in SandboxEnvs :
          fnOut' = [kind |-> "applied",
                    first |-> RunOutcome(fnIn.items, fnIn.days_analyzed,
                                         fnIn.income, env1),
                    second |-> RunOutcome(fnIn.permuted, fnIn.days_analyzed,
                                          fnIn.income, env2)]
    /\ UNCHANGED <<fnIn, runVars, concVars>>

SpecPerm == PermInit /\ [][PermApply]_vars

(***************************************************************************)
(* SpecStrategy: the analyst and then the strategist's _generate_actions   *)
(* and _generate_goals applied to one list of classified expenses.         *)
(***************************************************************************)
MaxStratBatch == 3    \* expenses of the list

\* the expenses of the lists: amounts (0 is the parser's sentinel) and
\* categories
StratExpenses ==
    {Expense(<<"x">>, Rat(amount), category, 0) :
        amount \in {0, 20, 40, 60}, category \in {"FOOD", "TRANSPORT", "SHOPPING"}}

\* a list may end with a refund: the LLM's answer to the parse prompt is
\* taken with whatever amount it holds, a negative one too
StratRefund == Expense(<<"i", "a", "d", "e">>, Rat(0 - 60), "OTHER", 0)
StratBatches ==
    {base \o refund : base \in SeqsUpTo(StratExpenses, MaxStratBatch),
                      refund \in {<<>>, <<StratRefund>>}}

StratInit ==
    /\ fnIn \in [expenses : StratBatches,
                 days_analyzed : {1},
                 income : {None, Some(Rat(3000))}]
    /\ fnOut = NotApplied
    /\ RunOff /\ ConcOff

StratApply ==
    /\ fnOut = NotApplied
    /\ \E env \in SandboxEnvs :
          LET analyzed(r) ==
                  IF r.kind = "raise"
                  THEN [kind |-> "applied", result |-> "raise", exc |-> r.exc]
                  ELSE [kind |-> "applied", result |-> "return",
                        analysis |-> r.value,
                        action_items |-> GenerateActions(r.value),
                        goals |-> GenerateGoals(r.value)]
          IN  fnOut' = analyzed(AnalystExecute(fnIn.expenses, fnIn.days_analyzed,
                                               fnIn.income, env))
    /\ UNCHANGED <<fnIn, runVars, concVars>>

SpecStrategy == StratInit /\ [][StratApply]_vars

(***************************************************************************)
(* SpecExec: one call of CodeExecutor.execute.  The caller awaits          *)
(* asyncio.wait_for(asyncio.to_thread(self._execute_sync, code), timeout): *)
(* a worker thread runs the script step by step while the event loop's     *)
(* clock runs towards the timeout.                                         *)
(***************************************************************************)
MaxWork    == 4    \* steps a script needs
MaxTimeout == 3    \* ticks of self.timeout

TimeoutResult == [success |-> FALSE, error |-> "Timeout"]

\* what _execute_sync returns: exec went through, or raised
SyncResult(raises) ==
    IF raises THEN [success |-> FALSE, error |-> "exception"]
    ELSE [success |-> TRUE, error |-> "none"]

ExecInit ==
    /\ fnIn \in [work : 1..MaxWork, raises : BOOLEAN, timeout : 1..MaxTimeout]
    /\ fnOut = [caller |-> "awaiting", returned |-> None, thread |-> "running",
                steps |-> 0, clock |-> 0, future |-> None]
    /\ RunOff /\ ConcOff

\* the worker thread: one step of exec(byte_code, restricted_globals); nothing
\* the event loop does stops it
ThreadStep ==
    /\ fnOut.thread = "running"
    /\ fnOut.steps < fnIn.work
    /\ fnOut' = [fnOut EXCEPT !.steps = @ + 1]
    /\ UNCHANGED <<fnIn, runVars, concVars>>

\* the worker thread: _execute_sync returns and the thread ends; the result
\* reaches the future unless that was cancelled
ThreadReturn ==
    /\ fnOut.thread = "running"
    /\ fnOut.steps = fnIn.work
    /\ fnOut' = [fnOut EXCEPT !.thread = "finished",
                              !.future = IF fnOut.caller = "awaiting"
                                         THEN Some(SyncResult(fnIn.raises))
                                         ELSE @]
    /\ UNCHANGED <<fnIn, runVars, concVars>>

\* the event loop's clock
Tick ==
    /\ fnOut.caller = "awaiting"
    /\ fnOut.clock < fnIn.timeout
    /\ fnOut' = [fnOut EXCEPT !.clock = @ + 1]
    /\ UNCHANGED <<fnIn, runVars, concVars>>

\* wait_for returns the future's result: execute returns it (line 52)
ExecuteReturn ==
    /\ fnOut.caller = "awaiting"
    /\ fnOut.future # None
    /\ fnOut' = [fnOut EXCEPT !.caller = "returned", !.returned = fnOut.future]
    /\ UNCHANGED <<fnIn, runVars, concVars>>

\* the timeout fires before the future has a result: wait_for cancels the
\* future, which leaves the running thread as it is, and raises TimeoutError;
\* execute returns the timeout dict (lines 54-60)
ExecuteTimeout ==
    /\ fnOut.caller = "awaiting"
    /\ fnOut.clock = fnIn.timeout
    /\ fnOut.future = None
    /\ fnOut' = [fnOut EXCEPT !.caller = "returned", !.returned = Some(TimeoutResult)]
    /\ UNCHANGED <<fnIn, runVars, concVars>>

ExecNext ==
    \/ ThreadStep
    \/ ThreadReturn
    \/ Tick
    \/ ExecuteReturn
    \/ ExecuteTimeout

SpecExec == ExecInit /\ [][ExecNext]_vars

(***************************************************************************)
(* SpecHistory: a server's life as a sequence of analyze requests that     *)
(* reach persistence and of history requests (GET /analyses).  storage     *)
(* holds the expenses file and the analysis files in the order of their    *)
(* creation; response is the answer to the last history request.           *)
(***************************************************************************)
MaxHistory == 3    \* analyses persisted

Reverse(s) == [i \in 1..Len(s) |-> s[Len(s) + 1 - i]]

HistInit == RunOff /\ FnOff /\ ConcOff

\* a run of analyze_expenses over a batch of one text that gets to its end:
\* save_expenses overwrites the expenses file, save_analysis adds a file
HistAnalyze ==
    /\ Len(storage.analyses) < MaxHistory
    /\ \E item \in PermItems, income \in {None, Some(Rat(1500))}, env \in SandboxEnvs :
          LET analyzed(es, r) ==
                  /\ r.kind = "return"
                  /\ storage' = [expenses |-> es,
                                 analyses |-> Append(storage.analyses, r.value)]
              classified(es) ==
                  /\ es # <<>>
                  /\ analyzed(es, AnalystExecute(es, 7, income, env))
          IN  classified(ClassifierExecute(<<item>>))
    /\ UNCHANGED <<pc, request, idx, expenses, frame, analysis, recommendation,
                   error, trace, searcher, unreachable, response, fnVars, concVars>>

\* get_analyses: load_all_analyses gives the analyses newest first, and each
\* is converted to AnalysisResponse, whose budget_percentage: float does not
\* take None; any exception is answered with 500
HistGet ==
    /\ response' =
          Some(IF \E k \in 1..Len(storage.analyses) :
                     storage.analyses[k].usage_percentage = None
               THEN [status |-> 500, analyses |-> <<>>]
               ELSE [status |-> 200, analyses |-> Reverse(storage.analyses)])
    /\ UNCHANGED <<pc, request, idx, expenses, frame, analysis, recommendation,
                   storage, error, trace, searcher, unreachable, fnVars, concVars>>

HistNext == HistAnalyze \/ HistGet

SpecHistory == HistInit /\ [][HistNext]_vars

(***************************************************************************)
(* Claims.                                                                 *)
(***************************************************************************)

\* C4: for every input text parse returns a (description, amount) pair and
\* never raises; when the strict pattern does not match and the generation
\* backend fails or answers with anything other than a JSON object holding a
\* description and a numeric amount, the result is (text verbatim, 0).
NumericAmountReply(reply) ==
    /\ reply.ok /\ reply.j = "object" /\ reply.hasDesc /\ reply.hasAmount
    /\ \/ reply.amt.t = "number"
       \/ reply.amt.t = "string" /\ FloatOk(reply.amt.str)

C4_ParseNeverRaises ==
    fnOut.kind = "applied" =>
        /\ fnOut.result.kind = "return"
        /\ (fnOut.asked # <<>> /\ ~NumericAmountReply(fnOut.asked[1]))
              => fnOut.result.value = [description |-> fnIn.text, amount |-> Rat(0)]

\* C7: for every well-formed "<desc> <number> TL" parse returns exactly
\* (desc trimmed, number) and does not call the generation backend.
NumberValue(ip, fp) ==
    IF fp = <<>> THEN Rat(DigitsValue(ip))
    ELSE RatNorm(DigitsValue(ip) * Pow10(Len(fp) - 1) + DigitsValue(Tail(fp)),
                 Pow10(Len(fp) - 1))

C7_WellFormedParsedExactly ==
    (fnOut.kind = "applied" /\ fnIn.wf) =>
        /\ fnOut.result.kind = "return"
        /\ fnOut.result.value.description = Strip(fnIn.desc)
        /\ fnOut.result.value.amount = NumberValue(fnIn.ip, fnIn.fp)
        /\ fnOut.result.llm = 0
        /\ fnOut.asked = <<>>

\* a description with digits and spaces, a ',' decimal part and a mixed-case
\* tag has been parsed
C7_Witness ==
    /\ fnOut.kind = "applied" /\ fnIn.wf
    /\ fnIn.desc = <<"a", " ", "7">>
    /\ fnIn.fp = <<",", "5">>
    /\ fnIn.text = <<"a", " ", "7", " ", "0", ",", "5", " ", "T", "l">>
    /\ fnOut.result.value.amount = <<1, 2>>

\* C5: for every description classify returns one of the ten categories and
\* never raises; when no keyword matches and the backend fails or answers
\* with a token that is no category name, the result is OTHER.
C5_CategorizeNeverRaises ==
    fnOut.kind = "applied" =>
        /\ fnOut.result.kind = "return"
        /\ fnOut.result.value \in Categories
        /\ (fnOut.asked # <<>> /\
              (~fnOut.asked[1].ok \/
                 ExpenseCategory(Strip(Upper(fnOut.asked[1].text))) = "ValueError"))
              => fnOut.result.value = "OTHER"

\* C8: classify("starbucks latte") is FOOD and classify("asus laptop") is
\* SHOPPING, both decided by keyword matching alone.
C8_KeywordExamples ==
    fnOut.kind = "applied" =>
        /\ fnIn = <<"s", "t", "a", "r", "b", "u", "c", "k", "s", " ", "l", "a", "t", "t", "e">> =>
              fnOut.result = Returned("FOOD", 0)
        /\ fnIn = <<"a", "s", "u", "s", " ", "l", "a", "p", "t", "o", "p">> =>
              fnOut.result = Returned("SHOPPING", 0)

C1_RequestsIsolated ==
    \A r \in DOMAIN observed :
        observed[r] # None => observed[r][1].mine /\ observed[r][1].open

\* the stages of a run of the request, in their order
StageOrder ==
    IF request.enable_search /\ searcher
    THEN <<"classify", "search", "analyze", "strategize", "persist">>
    ELSE <<"classify", "analyze", "strategize", "persist">>

\* the stages before stage s
StagesBefore(s) ==
    LET k == CHOOSE k \in 1..Len(StageOrder) : StageOrder[k] = s
    IN  SubSeq(StageOrder, 1, k - 1)

\* C2 (as the specification words it): a run completes every stage, or it
\* fails before any stage-1 work is done; no run fails part-way, after a
\* stage has completed
C2_AllOrNothing ==
    pc = "failed" => trace = <<>> /\ expenses = <<>> /\ storage = NoStorage

\* C2 (amended): a run completes every stage in order and returns, or it fails
\* part-way: with a validation error once classification has given no
\* expense, or with the error of the analysis, strategy or persistence stage
\* once every stage before it has completed; no stage after the failing one
\* has run, and nothing is persisted before strategy generation has returned
C2_FailsAtStageBoundary ==
    /\ pc = "done" =>
          /\ trace = StageOrder /\ error = None
          /\ analysis # None /\ recommendation # None
          /\ storage.expenses = expenses /\ storage.analyses = <<analysis[1]>>
    /\ pc = "failed" =>
          /\ error # None
          /\ \/ /\ error[1] = [exc |-> "ValueError", stage |-> "orchestrator"]
                /\ trace = <<"classify">> /\ expenses = <<>>
                /\ analysis = None
             \/ /\ error[1] = [exc |-> "ZeroDivisionError", stage |-> "analyze"]
                /\ trace = StagesBefore("analyze")
                /\ analysis = None
             \/ /\ error[1] = [exc |-> "RuntimeError", stage |-> "strategize"]
                /\ trace = StagesBefore("strategize")
                /\ analysis # None /\ recommendation = None
             \/ /\ error[1] = [exc |-> "OSError", stage |-> "persist"]
                /\ trace = StagesBefore("persist")
                /\ recommendation # None
                /\ storage.analyses = <<>>
          /\ error[1].stage # "persist" => storage = NoStorage

\* a run that failed in strategy generation after classification and analysis
\* had completed
C2_Witness ==
    /\ pc = "failed"
    /\ error = Some([exc |-> "RuntimeError", stage |-> "strategize"])
    /\ trace = <<"classify", "search", "analyze">>
    /\ analysis # None

\* the sum of the amounts of the expenses of category c
RECURSIVE CategorySum(_, _)
CategorySum(es, c) ==
    IF es = <<>> THEN Rat(0)
    ELSE LET rest == CategorySum(SubSeq(es, 1, Len(es) - 1), c)
         IN  IF es[Len(es)].category = c THEN RatAdd(rest, es[Len(es)].amount)
             ELSE rest

\* each present category mapped to the sum of its amounts
DirectTotals(es) ==
    {<<es[i].category, CategorySum(es, es[i].category)>> : i \in 1..Len(es)}

\* the items of a dict, one per key
IsMapping(d, items) ==
    /\ {d[i] : i \in 1..Len(d)} = items
    /\ Len(d) = Cardinality(items)

C6_OneExpensePerText ==
    trace # <<>> =>
        /\ Len(expenses) = Len(request.expense_texts)
        /\ \A i \in 1..Len(expenses) : expenses[i].text_index = i

RatMax(a, b) == IF RatLt(a, b) THEN b ELSE a

C11_EmptyBatchRejected ==
    /\ \A days \in Days, income \in Incomes, env \in SandboxEnvs :
          AnalystExecute(<<>>, days, income, env)
              = [kind |-> "raise", exc |-> "ValueError", locals |-> None]
    /\ (trace # <<>> /\ expenses = <<>>) =>
          /\ pc = "failed"
          /\ error = Some([exc |-> "ValueError", stage |-> "orchestrator"])
          /\ trace = <<"classify">>
          /\ frame = None /\ analysis = None /\ recommendation = None
          /\ storage = NoStorage
          /\ response \in {None, Some(400)}

\* a run whose only text was dropped, answered with 400
C11_Witness ==
    /\ pc = "failed" /\ expenses = <<>>
    /\ error = Some([exc |-> "ValueError", stage |-> "orchestrator"])
    /\ Len(request.expense_texts) = 1
    /\ response = Some(400)

\* the sum of the values of a dict
RECURSIVE SumValues(_)
SumValues(d) ==
    IF d = <<>> THEN Rat(0)
    ELSE RatAdd(SumValues(SubSeq(d, 1, Len(d) - 1)), d[Len(d)][2])

\* C12: in every Analysis the analyst produces, the values of the category
\* breakdown sum to the total spend and its keys are exactly the categories
\* of the analysed expenses, each once
C12_BreakdownSumsToTotal ==
    analysis # None =>
        LET a == analysis[1]
            d == a.category_breakdown
        IN  /\ a.total_expenses = SumAmounts(expenses)
            /\ SumValues(d) = a.total_expenses
            /\ {d[i][1] : i \in 1..Len(d)}
                  = {expenses[i].category : i \in 1..Len(expenses)}
            /\ \A i, j \in 1..Len(d) : d[i][1] = d[j][1] => i = j

\* an analysis of two categories: FOOD 50 and SHOPPING 8420 of 8470
C12_Witness ==
    /\ analysis # None
    /\ analysis[1].total_expenses = Rat(8470)
    /\ analysis[1].category_breakdown
          = << <<"FOOD", Rat(50)>>, <<"SHOPPING", Rat(8420)>> >>

\* the searcher stage of the run has returned
SearchDone == \E k \in 1..Len(trace) : trace[k] = "search"

\* C13: the searcher issues a price search for an expense if and only if its
\* amount is >= the threshold or is 0: an expense exactly at the threshold is
\* searched, one strictly between 0 and the threshold never is
C13_SearchedIffSelected ==
    \A i \in 1..Len(expenses) :
        LET e == expenses[i]
            selected == \/ ~RatLt(e.amount, Rat(SearchThreshold))
                        \/ e.amount = Rat(0)
        IN  /\ e.search_call # "none" => selected
            /\ SearchDone => (selected => e.search_call # "none")
            /\ (RatLt(Rat(0), e.amount) /\ RatLt(e.amount, Rat(SearchThreshold)))
                  => e.search_call = "none"

\* after the searcher returned: an expense of exactly 100 TL was searched, one
\* of 50 TL was not
C13_Witness ==
    /\ SearchDone
    /\ Len(expenses) = 2
    /\ expenses[1].amount = Rat(SearchThreshold) /\ expenses[1].search_call # "none"
    /\ expenses[2].amount = Rat(50) /\ expenses[2].search_call = "none"

\* C14: a failed search of one selected expense does not end the searcher
\* stage: every step of the stage keeps the list's length and order and every
\* expense's description, amount and category, the expense whose search
\* failed stays as it was, unsearched, and when the stage has returned every
\* selected expense has had its search
C14_SearchFailureSkipped ==
    /\ [][ pc = "search" =>
             /\ Len(expenses') = Len(expenses)
             /\ \A i \in 1..Len(expenses) :
                   /\ expenses'[i].description = expenses[i].description
                   /\ expenses'[i].amount = expenses[i].amount
                   /\ expenses'[i].category = expenses[i].category
                   /\ expenses'[i].text_index = expenses[i].text_index
                   /\ expenses'[i].search_call = "raised" =>
                         expenses'[i].metadata = expenses[i].metadata ]_vars
    /\ [](\A i \in 1..Len(expenses) :
             /\ expenses[i].search_call = "raised" =>
                   expenses[i].metadata = NoMetadata
             /\ (SearchDone /\ (~RatLt(expenses[i].amount, Rat(SearchThreshold))
                                \/ expenses[i].amount = Rat(0)))
                   => expenses[i].search_call # "none")

\* the search of the first expense failed, the second was searched all the
\* same and carries its results
C14_Witness ==
    /\ SearchDone
    /\ Len(expenses) = 2
    /\ expenses[1].search_call = "raised" /\ expenses[1].metadata = NoMetadata
    /\ expenses[2].search_call = "returned" /\ expenses[2].metadata.searched

\* C15: select_model always returns the fast or the accurate model: under
\* the auto strategy recommend gets the accurate model and every other task
\* type, known or not, the fast one; under the fast or the accurate strategy
\* every task type gets that strategy's model
C15_ModelSelection ==
    fnOut.kind = "return" =>
        /\ fnOut.value \in {fnIn.fast_model, fnIn.accurate_model}
        /\ fnIn.strategy = "auto" =>
              fnOut.value = IF fnIn.task_type = "recommend"
                            THEN fnIn.accurate_model ELSE fnIn.fast_model
        /\ fnIn.strategy = "fast" => fnOut.value = fnIn.fast_model
        /\ fnIn.strategy = "accurate" => fnOut.value = fnIn.accurate_model

\* recommend under auto, with two different models configured
C15_Witness ==
    /\ fnOut.kind = "return"
    /\ fnIn = [strategy |-> "auto", fast_model |-> "llama3.2:3b",
               accurate_model |-> "llama3.1:8b", task_type |-> "recommend"]
    /\ fnOut.value = "llama3.1:8b"

\* C16: the strategist always returns a Recommendation that holds the action
\* items and the two goals computed from the analysis, whatever the
\* generation backend does: once the strategist has been called for an
\* analysis, the run has its recommendation
C16_RecommendationAlwaysProduced ==
    (analysis # None /\ pc # "strategize") =>
        /\ recommendation # None
        /\ recommendation[1].action_items = GenerateActions(analysis[1])
        /\ Len(recommendation[1].action_items) > 0
        /\ Len(recommendation[1].goals) = 2

\* C17: when the generation backend or the storage is unreachable at a point
\* where the run needs it, the handler answers with a server-side failure
\* (500), never with a client error (400) and never with a success
C17_BackendFailureIsServerError ==
    (unreachable # {} /\ response # None) => response = Some(500)

\* C18: every amount the parser returns, and so the amount of every Expense
\* the classifier builds from it, is non-negative, whether it comes from the
\* strict pattern, from the generation backend or from the zero sentinel
C18_AmountNonNegative ==
    (fnOut.kind = "applied" /\ fnOut.result.kind = "return") =>
        ~RatLt(fnOut.result.value.amount, Rat(0))

\* the elements of a sequence
Elements(s) == {s[i] : i \in 1..Len(s)}

\* C19: the order of the texts of a batch does not affect the outcome: the run
\* on a permutation of the batch, each text with the same backend replies,
\* ends the same way and gives the same total, category totals, budget
\* status, set of trends, set of action items and goals
C19_OrderIndependent ==
    fnOut.kind = "applied" =>
        /\ fnOut.first.kind = fnOut.second.kind
        /\ fnOut.first.kind = "return" =>
              LET a == fnOut.first
                  b == fnOut.second
              IN  /\ a.analysis.total_expenses = b.analysis.total_expenses
                  /\ Elements(a.analysis.category_breakdown)
                        = Elements(b.analysis.category_breakdown)
                  /\ a.analysis.budget_status = b.analysis.budget_status
                  /\ Elements(a.analysis.trends) = Elements(b.analysis.trends)
                  /\ Elements(a.action_items) = Elements(b.action_items)
                  /\ a.goals = b.goals

\* the search stage is on: for the request and in the orchestrator
SearchOn == request.enable_search /\ searcher

\* C20: the stages of a run execute in the order classify, (optional) search,
\* analyze, strategize, persist, each starting only after the one before it
\* has completed for the whole batch; save_expenses and save_analysis come
\* only after strategy generation has returned; with search disabled for the
\* request or in the orchestrator there is no search stage, no search call
\* and no metadata change
C20_StagesInOrder ==
    /\ [][/\ Len(trace') > Len(trace) =>
                \/ trace' = SubSeq(StageOrder, 1, Len(trace) + 1)
                \/ pc' = "failed"
          /\ (pc = "classify" /\ pc' # "classify") =>
                idx = Len(request.expense_texts)
          /\ (pc = "search" /\ pc' # "search") =>
                \A k \in 1..Len(expenses) :
                   Searchable(expenses[k]) => expenses[k].search_call # "none"
          /\ storage' # storage =>
                /\ pc \in {"save_expenses", "save_analysis"}
                /\ recommendation # None
                /\ "strategize" \in Elements(trace)]_vars
    /\ [](/\ pc = "classify" =>
                /\ trace = <<>> /\ analysis = None
                /\ \A k \in 1..Len(expenses) : expenses[k].search_call = "none"
          /\ pc = "search" =>
                /\ SearchOn
                /\ trace = <<"classify">> /\ analysis = None
          /\ pc = "analyze" =>
                /\ trace = StagesBefore("analyze")
                /\ analysis = None /\ recommendation = None
          /\ pc = "strategize" =>
                /\ trace = StagesBefore("strategize")
                /\ analysis # None /\ recommendation = None
          /\ pc \in {"save_expenses", "save_analysis"} =>
                /\ trace = StagesBefore("persist")
                /\ analysis # None /\ recommendation # None
          /\ pc = "done" => trace = StageOrder
          /\ pc \notin {"save_expenses", "save_analysis", "done", "failed"} =>
                storage = NoStorage
          /\ ~SearchOn =>
                /\ "search" \notin Elements(trace)
                /\ \A k \in 1..Len(expenses) :
                      /\ expenses[k].search_call = "none"
                      /\ expenses[k].metadata = NoMetadata)

\* a completed run with search requested but no searcher in the orchestrator,
\* over a batch with an expense the searcher would have selected
C20_Witness ==
    /\ pc = "done"
    /\ request.enable_search /\ ~searcher
    /\ \E k \in 1..Len(expenses) : Searchable(expenses[k])
    /\ trace = <<"classify", "analyze", "strategize", "persist">>
    /\ storage.expenses = expenses

\* the categories in the order of their declaration, OTHER left out
DeclaredOrder ==
    <<"FOOD", "TRANSPORT", "UTILITIES", "ENTERTAINMENT", "HEALTH", "EDUCATION",
      "SHOPPING", "HOUSING", "PERSONAL">>

\* some keyword of the category occurs in the description, letter case ignored
KeywordHit(category, description) ==
    \E i \in 1..Len(keywords_map) :
       /\ keywords_map[i][1] = category
       /\ \E k \in 1..Len(keywords_map[i][2]) :
             Contains(Lower(description), Lower(keywords_map[i][2][k]))

\* C21: keyword classification returns the earliest-declared category that
\* has a keyword occurring in the description as a case-insensitive
\* substring, and the generation backend is asked only when no category has
\* a hit
C21_EarliestCategoryWins ==
    fnOut.kind = "applied" =>
        LET hits == {i \in 1..Len(DeclaredOrder) : KeywordHit(DeclaredOrder[i], fnIn)}
        IN  /\ hits # {} =>
                  /\ fnOut.result.kind = "return"
                  /\ \E i \in hits :
                        /\ \A j \in hits : i <= j
                        /\ fnOut.result.value = DeclaredOrder[i]
                  /\ fnOut.asked = <<>>
            /\ fnOut.asked = <<>> => hits # {}

\* "Kahve telefon" has keywords of FOOD, UTILITIES and SHOPPING and is FOOD,
\* without a call of the backend
C21_Witness ==
    /\ fnOut.kind = "applied"
    /\ fnIn = <<"K", "a", "h", "v", "e", " ", "t", "e", "l", "e", "f", "o", "n">>
    /\ KeywordHit("SHOPPING", fnIn) /\ KeywordHit("UTILITIES", fnIn)
    /\ fnOut.result = Returned("FOOD", 0)
    /\ fnOut.asked = <<>>

\* C22: after the searcher returned, every selected expense (amount >= the
\* threshold, or 0) whose search call did not fail carries searched = true
\* with at most the first 3 results of its search, and no unselected expense
\* carries the searched flag
C22_SearchedCarriesResults ==
    SearchDone =>
        \A i \in 1..Len(expenses) :
            LET e == expenses[i]
                selected == \/ ~RatLt(e.amount, Rat(SearchThreshold))
                            \/ e.amount = Rat(0)
            IN  /\ (selected /\ e.search_call = "returned") =>
                      /\ e.metadata.searched
                      /\ e.metadata.search_results <= KeptResults
                /\ ~selected => ~e.metadata.searched

\* s begins with p
StartsWith(s, p) == Len(p) <= Len(s) /\ SubSeq(s, 1, Len(p)) = p

\* the action for a category above 40%
IsExtra(item) == StartsWith(item.description, <<"C", "r", "e", "a", "t", "e", " ", "s", "a", "v", "i", "n", "g", "s", " ", "p", "l", "a", "n", " ", "f", "o", "r", " ">>)

\* the actions of the budget status: the list without a final extra action
StatusPart(items) ==
    IF items # <<>> /\ IsExtra(items[Len(items)])
    THEN SubSeq(items, 1, Len(items) - 1) ELSE items

\* the description names a category that no category but those of `above`
\* outspends
NamesTop(description, d, above) ==
    \E i \in 1..Len(d) :
       /\ d[i][1] \notin above
       /\ \A j \in 1..Len(d) : d[j][1] \notin above => RatLe(d[j][2], d[i][2])
       /\ Contains(description, CategoryChars[d[i][1]])

\* the highest-spending categories of a breakdown
TopCats(d) == {d[i][1] : i \in {i \in 1..Len(d) : \A j \in 1..Len(d) : RatLe(d[j][2], d[i][2])}}

\* C23: the actions of the budget status are: for HEALTHY two LOW items; for
\* WARNING a MEDIUM item naming the highest-spending category, then a generic
\* MEDIUM item; for OVER_BUDGET a HIGH item naming the highest-spending
\* category, a HIGH item naming the second-highest when there is a second
\* category, and a generic URGENT item, in this order
C23_StatusActions ==
    recommendation # None =>
        LET a == analysis[1]
            d == a.category_breakdown
            items == StatusPart(recommendation[1].action_items)
            priorities == [k \in 1..Len(items) |-> items[k].priority]
            generic(item) == \A c \in Categories : ~Contains(item.description, CategoryChars[c])
        IN  /\ a.budget_status = "HEALTHY" =>
                  /\ priorities = <<"LOW", "LOW">>
                  /\ generic(items[1]) /\ generic(items[2])
            /\ a.budget_status = "WARNING" =>
                  /\ priorities = <<"MEDIUM", "MEDIUM">>
                  /\ NamesTop(items[1].description, d, {})
                  /\ generic(items[2])
            /\ (a.budget_status = "OVER_BUDGET" /\ Len(d) = 1) =>
                  /\ priorities = <<"HIGH", "URGENT">>
                  /\ NamesTop(items[1].description, d, {})
                  /\ generic(items[2])
            /\ (a.budget_status = "OVER_BUDGET" /\ Len(d) > 1) =>
                  /\ priorities = <<"HIGH", "HIGH", "URGENT">>
                  /\ \E top \in TopCats(d) :
                        /\ Contains(items[1].description, CategoryChars[top])
                        /\ NamesTop(items[2].description, d, {top})
                  /\ generic(items[3])

\* an over-budget analysis of two categories: SHOPPING 8420 is cut first,
\* FOOD 50 second, then the urgent item
C23_Witness ==
    /\ recommendation # None
    /\ analysis[1].budget_status = "OVER_BUDGET"
    /\ analysis[1].category_breakdown = <<<<"FOOD", Rat(50)>>, <<"SHOPPING", Rat(8420)>>>>
    /\ Len(recommendation[1].action_items) = 3
    /\ Contains(recommendation[1].action_items[1].description, <<"S", "H", "O", "P", "P", "I", "N", "G">>)
    /\ Contains(recommendation[1].action_items[2].description, <<"F", "O", "O", "D">>)
    /\ recommendation[1].action_items[3].priority = "URGENT"

\* the share an amount has of a total that is not 0, in percent
SharePct(amount, total) == RatMul(RatDiv(amount, total), Rat(100))

\* the positions of the breakdown whose category has a share of the total
\* strictly above 40% and a name that occurs in no description of `items`
Qualifying(a, items) ==
    {i \in 1..Len(a.category_breakdown) :
        /\ RatLt(Rat(40), SharePct(a.category_breakdown[i][2], a.total_expenses))
        /\ \A k \in 1..Len(items) :
              ~Contains(items[k].description,
                        CategoryChars[a.category_breakdown[i][1]])}

C25_TimeoutAborts ==
    /\ (fnOut.caller = "awaiting" /\ fnOut.clock = fnIn.timeout
           /\ fnOut.future = None) => ENABLED ExecuteTimeout
    /\ (fnOut.caller = "returned" /\ fnOut.returned = Some(TimeoutResult)) =>
           fnOut.thread # "running"

\* C26: for every non-empty list of expenses, one whose amounts are all the
\* zero sentinel included, analyze returns, and its trend list holds exactly
\* one entry for each category with a share of the total of at least 30% and
\* none for any other category: at most three trends
C26_TrendsForEveryBatch ==
    fnOut.kind = "applied" =>
        /\ fnOut.result = "return"
        /\ LET a == fnOut.analysis
               d == a.category_breakdown
               high == {d[i][1] : i \in {i \in 1..Len(d) :
                           RatLe(Rat(TrendShare),
                                 SharePct(d[i][2], a.total_expenses))}}
           IN  /\ {a.trends[k].category : k \in 1..Len(a.trends)} = high
               /\ Len(a.trends) = Cardinality(high)
               /\ Len(a.trends) <= 3

\* C27: an action of priority HIGH or URGENT is generated only for an analysis
\* of status OVER_BUDGET; an analysis that is UNKNOWN because no income was
\* given gets no HIGH and no URGENT action
C27_HighOnlyOverBudget ==
    (fnOut.kind = "applied" /\ fnOut.result = "return") =>
        \A k \in 1..Len(fnOut.action_items) :
            fnOut.action_items[k].priority \in {"HIGH", "URGENT"} =>
                fnOut.analysis.budget_status = "OVER_BUDGET"

\* C28: for every analysis analyze produces (non-empty breakdown, positive
\* total) the strategist returns 2 or 3 actions, and for status OVER_BUDGET
\* the rule for categories above 40% adds none, every such category being
\* one of the two that the HIGH actions name
C28_TwoOrThreeActions ==
    (/\ fnOut.kind = "applied" /\ fnOut.result = "return"
     /\ fnOut.analysis.category_breakdown # <<>>
     /\ RatLt(Rat(0), fnOut.analysis.total_expenses)) =>
        /\ Len(fnOut.action_items) \in {2, 3}
        /\ fnOut.analysis.budget_status = "OVER_BUDGET" =>
              \A k \in 1..Len(fnOut.action_items) : ~IsExtra(fnOut.action_items[k])

\* C29: a request that the analyze endpoint answers with an error has
\* persisted neither its expenses nor its analysis, and a run that has
\* persisted its expenses and its analysis is answered with success
C29_ErrorPersistsNothing ==
    response # None =>
        /\ response[1] # 200 => storage = NoStorage
        /\ (storage.expenses # <<>> /\ storage.analyses # <<>>) => response[1] = 200

\* C30: after any sequence of analyze requests, with or without an income, a
\* history request succeeds and returns every analysis persisted so far,
\* newest first; no persisted analysis makes later history requests fail
C30_HistoryAlwaysSucceeds ==
    response # None =>
        /\ response[1].status = 200
        /\ \E n \in 0..Len(storage.analyses) :
              response[1].analyses = Reverse(SubSeq(storage.analyses, 1, n))
====
